---- MODULE Spec2Model ----
(***************************************************************************)
(* Model of the ping monitor's numeric core and of the session layer that  *)
(* drives it:                                                              *)
(*   - PingService (services/ping.service.ts): serial probe scheduling,    *)
(*     the rolling window and calculateStats;                              *)
(*   - DeviationDetector (services/deviation.service.ts);                  *)
(*   - the WebSocket session handlers (routes/websocket.ts) and the        *)
(*     analysis routes (routes/sessions.ts) over the SQLite tables.        *)
(*                                                                         *)
(* Numbers.  Latencies are drawn from small sets of whole milliseconds.    *)
(* Every derived quantity that the code computes by division (mean,        *)
(* median, jitter, variance) is kept as an exact rational <<num, den>>     *)
(* in lowest terms with den > 0, so comparisons are exact.  stdDev is      *)
(* kept through its square (the variance).                                 *)
(* An optional value (number | null) is <<>> for null and <<v>> for v.     *)
(***************************************************************************)
EXTENDS Integers, Sequences, FiniteSets, TLC

(***************************************************************************)
(* Bounds of the model.                                                    *)
(***************************************************************************)
\* direct calls made on the DeviationDetector in SpecDetector
MaxCalls == 3
\* largest timestamp a caller passes to detect() in SpecDetector
MaxStamp == 1
\* sessions created, probes per session and client messages per connection in Spec
MaxSessions == 2
MaxPings == 2
MaxMessages == 3
\* probes per session and client messages per connection in SpecTwo
TwoMaxPings == 1
TwoMaxMessages == 2
\* buffered samples that trigger a batch save in the model; the source saves at
\* 100 buffered samples (websocket.ts, onPing), scaled down here
FlushBatchSize == 2
\* probes of the single session of SpecPing, and the largest window size it uses
PingMaxPings == 4
PingMaxWindow == 3
PingMaxMessages == 2
\* 20 ms replies per session of SpecPing
PingMaxRare == 1
\* longest window given to calculateStats in SpecStats
StatMaxLen == 5
\* samples of the history given to computeSessionAnalysis, and calls made on it
AnMaxLen == 4
AnMaxCalls == 2
\* computeLatencyStats on its own: the most latencies of 0 ms in a list, and the
\* most of each other value
LatMaxZeros == 20
LatMaxOthers == 2
\* probes of the single session of SpecWarm (its window is minSamples wide)
WarmMaxPings == 12
\* losses and 30 ms replies per session of SpecWarm
WarmMaxRare == 3

(***************************************************************************)
(* Optional values and exact rationals.                                    *)
(***************************************************************************)
None == <<>>
Some(v) == <<v>>
IsNone(o) == o = <<>>
Val(o) == o[1]

Abs(x) == IF x < 0 THEN -x ELSE x
MinI(a, b) == IF a <= b THEN a ELSE b

RECURSIVE Gcd(_, _)
Gcd(a, b) == IF b = 0 THEN a ELSE Gcd(b, a % b)

\* n/d in lowest terms, d # 0
Norm(n, d) ==
  LET g == Gcd(Abs(n), Abs(d))
      s == IF d < 0 THEN -1 ELSE 1
  IN  IF n = 0 THEN <<0, 1>> ELSE <<(s * n) \div g, (s * d) \div g>>

FromInt(i) == <<i, 1>>
Zero == <<0, 1>>
RAdd(a, b) == Norm(a[1] * b[2] + b[1] * a[2], a[2] * b[2])
RSub(a, b) == Norm(a[1] * b[2] - b[1] * a[2], a[2] * b[2])
RMul(a, b) == Norm(a[1] * b[1], a[2] * b[2])
RLt(a, b) == a[1] * b[2] < b[1] * a[2]
RLe(a, b) == a[1] * b[2] <= b[1] * a[2]
RMax(a, b) == IF RLt(a, b) THEN b ELSE a

RECURSIVE SumSeq(_)
SumSeq(s) == IF s = <<>> THEN 0 ELSE Head(s) + SumSeq(Tail(s))

RECURSIVE SumSqDev(_, _, _)
\* sum over the values v of (n*v - sum)^2, i.e. n^2 times the squared deviations
SumSqDev(s, n, sum) ==
  IF s = <<>> THEN 0
  ELSE (n * Head(s) - sum) * (n * Head(s) - sum) + SumSqDev(Tail(s), n, sum)

RECURSIVE Insert(_, _)
Insert(x, s) ==
  IF s = <<>> THEN <<x>>
  ELSE IF x < Head(s) THEN <<x>> \o s
  ELSE <<Head(s)>> \o Insert(x, Tail(s))

RECURSIVE SortAsc(_)
\* [...].sort((a, b) => a - b): ascending, stable
SortAsc(s) == IF s = <<>> THEN <<>> ELSE Insert(s[Len(s)], SortAsc(SubSeq(s, 1, Len(s) - 1)))

\* Math.floor(n * 0.25), Math.floor(n * 0.75), Math.floor(n * 0.95), Math.floor(n * 0.99)
\* (pct is the factor in hundredths; the double product floors to the same integer)
FloorPct(n, pct) == (n * pct) \div 100

\* sorted[i] with the code's 0-based index
At(sorted, i) == sorted[i + 1]

(***************************************************************************)
(* PingService.calculateStats                                              *)
(***************************************************************************)
EmptyStats ==
  [mean |-> Zero, median |-> Zero, variance |-> Zero, min |-> 0, max |-> 0,
   p95 |-> 0, p99 |-> 0, q1 |-> 0, q3 |-> 0, iqr |-> 0, jitter |-> Zero,
   packetLossRate |-> Zero, sampleCount |-> 0]

\* index of the lower quartile as a plausible slip would take it (ceiling rank)
Q1IndexCeil(n) == MinI((n * 75 + 99) \div 100, n - 1)

Q1Index(n) == FloorPct(n, 25)

Q3Index(n) == FloorPct(n, 75)

P95Index(n) == MinI(FloorPct(n, 95), n - 1)

P99Index(n) == MinI(FloorPct(n, 99), n - 1)

\* median that takes the upper middle element of an even window instead of the mean
MedianUpper(sorted) == FromInt(At(sorted, Len(sorted) \div 2))

\* median that takes the lower middle element of an even window instead of the mean
MedianLower(sorted) == FromInt(At(sorted, (Len(sorted) - 1) \div 2))

Median(sorted) ==
  LET n == Len(sorted)
  IN  IF n % 2 = 0
      THEN Norm(At(sorted, n \div 2 - 1) + At(sorted, n \div 2), 2)
      ELSE FromInt(At(sorted, n \div 2))

CalculateStats(latencies, deltas) ==
  IF Len(latencies) = 0 THEN EmptyStats
  ELSE
    LET sorted == SortAsc(latencies)
        n == Len(sorted)
        sum == SumSeq(sorted)
        q1 == At(sorted, Q1Index(n))
        q3 == At(sorted, Q3Index(n))
    IN  [mean |-> Norm(sum, n),
         median |-> Median(sorted),
         \* stdDev = Math.sqrt(variance)
         variance |-> Norm(SumSqDev(sorted, n, sum), n * n * n),
         min |-> At(sorted, 0),
         max |-> At(sorted, n - 1),
         p95 |-> At(sorted, P95Index(n)),
         p99 |-> At(sorted, P99Index(n)),
         q1 |-> q1,
         q3 |-> q3,
         iqr |-> q3 - q1,
         jitter |-> IF Len(deltas) > 0 THEN Norm(SumSeq(deltas), Len(deltas)) ELSE Zero,
         packetLossRate |-> Zero,
         sampleCount |-> n]

(***************************************************************************)
(* DeviationDetector                                                       *)
(* A detector is the record [settings, lastLatency, deviationCount].       *)
(* An event threshold is base + k*sqrt(var) (k = 0 except under zscore).   *)
(***************************************************************************)
Thr(base) == [base |-> base, k |-> Zero, var |-> Zero]

\* `${n}` of a non-negative integer
NumStr(n) == ToString(n)

\* an id built without the running counter
EventIdNoCounter(type, timestamp, count) == type \o "-" \o NumStr(timestamp)

\* `${type}-${timestamp}-${this.deviationCount}`
EventId(type, timestamp, count) == type \o "-" \o NumStr(timestamp) \o "-" \o NumStr(count)

NewDetector(settings) == [settings |-> settings, lastLatency |-> None, deviationCount |-> 0]

\* createEvent: deviationCount++ and the event built with the new count
CreateEvent(d, type, value, threshold, timestamp) ==
  [d |-> [d EXCEPT !.deviationCount = d.deviationCount + 1],
   ev |-> <<[id |-> EventId(type, timestamp, d.deviationCount + 1),
             timestamp |-> timestamp, type |-> type,
             value |-> value, threshold |-> threshold]>>]

NoEvent(d) == [d |-> d, ev |-> <<>>]

\* zScore > zScoreThreshold, zScore = (latency - mean) / stdDev, stdDev > 0
ZScoreExceeds(latency, stats, zthr) ==
  LET diff == RSub(FromInt(latency), stats.mean)
      d2 == RMul(diff, diff)
      t2 == RMul(RMul(zthr, zthr), stats.variance)
  IN  IF RLe(Zero, zthr)
      THEN RLt(Zero, diff) /\ RLt(t2, d2)
      ELSE RLe(Zero, diff) \/ RLt(d2, t2)

\* case 'iqr' without the floor of median + 1 under the threshold
IqrSpikeNoFloor(d, latency, stats, timestamp) ==
  LET threshold == RAdd(FromInt(stats.q3),
                        RMul(d.settings.iqrMultiplier, FromInt(stats.iqr)))
  IN  IF RLt(threshold, FromInt(latency))
      THEN CreateEvent(d, "latency_spike", FromInt(latency), Thr(threshold), timestamp)
      ELSE NoEvent(d)

\* case 'iqr'
IqrSpike(d, latency, stats, timestamp) ==
  LET threshold == RAdd(FromInt(stats.q3),
                        RMul(d.settings.iqrMultiplier, FromInt(stats.iqr)))
      effectiveThreshold == RMax(threshold, RAdd(stats.median, FromInt(1)))
  IN  IF RLt(effectiveThreshold, FromInt(latency))
      THEN CreateEvent(d, "latency_spike", FromInt(latency),
                       Thr(effectiveThreshold), timestamp)
      ELSE NoEvent(d)

\* case 'zscore' without the guard on stdDev: (latency - mean) / 0 is +Infinity
\* above the mean, which exceeds every threshold, and NaN or -Infinity otherwise
ZScoreSpikeNoGuard(d, latency, stats, timestamp) ==
  IF (IF stats.variance = Zero THEN RLt(stats.mean, FromInt(latency))
      ELSE ZScoreExceeds(latency, stats, d.settings.zScoreThreshold))
  THEN CreateEvent(d, "latency_spike", FromInt(latency),
                   [base |-> stats.mean, k |-> d.settings.zScoreThreshold,
                    var |-> stats.variance], timestamp)
  ELSE NoEvent(d)

\* case 'zscore'
ZScoreSpike(d, latency, stats, timestamp) ==
  IF stats.variance = Zero THEN NoEvent(d)
  ELSE IF ZScoreExceeds(latency, stats, d.settings.zScoreThreshold)
       THEN CreateEvent(d, "latency_spike", FromInt(latency),
                        [base |-> stats.mean, k |-> d.settings.zScoreThreshold,
                         var |-> stats.variance], timestamp)
       ELSE NoEvent(d)

\* case 'manual' that also fires at the threshold itself
ManualSpikeAtThreshold(d, latency, stats, timestamp) ==
  LET threshold == d.settings.manualLatencyThreshold
  IN  IF ~IsNone(threshold) /\ RLe(Val(threshold), FromInt(latency))
      THEN CreateEvent(d, "latency_spike", FromInt(latency),
                       Thr(Val(threshold)), timestamp)
      ELSE NoEvent(d)

\* case 'manual'
ManualSpike(d, latency, stats, timestamp) ==
  LET threshold == d.settings.manualLatencyThreshold
  IN  IF ~IsNone(threshold) /\ RLt(Val(threshold), FromInt(latency))
      THEN CreateEvent(d, "latency_spike", FromInt(latency),
                       Thr(Val(threshold)), timestamp)
      ELSE NoEvent(d)

\* detectLatencySpike whose switch falls back to the iqr case
DetectLatencySpikeDefaultIqr(d, latency, stats, timestamp) ==
  CASE d.settings.detectionMethod = "zscore" -> ZScoreSpike(d, latency, stats, timestamp)
    [] d.settings.detectionMethod = "manual" -> ManualSpike(d, latency, stats, timestamp)
    [] OTHER -> IqrSpike(d, latency, stats, timestamp)

\* detectLatencySpike: the switch on detectionMethod; no case matches another value
DetectLatencySpike(d, latency, stats, timestamp) ==
  CASE d.settings.detectionMethod = "iqr" -> IqrSpike(d, latency, stats, timestamp)
    [] d.settings.detectionMethod = "zscore" -> ZScoreSpike(d, latency, stats, timestamp)
    [] d.settings.detectionMethod = "manual" -> ManualSpike(d, latency, stats, timestamp)
    [] OTHER -> NoEvent(d)

\* detectJitterSpike whose automatic threshold has no floor of 2 ms
DetectJitterSpikeNoFloor(d, latency, stats, timestamp) ==
  IF IsNone(d.lastLatency) THEN NoEvent(d)
  ELSE
    LET delta == FromInt(Abs(latency - Val(d.lastLatency)))
        threshold == IF ~IsNone(d.settings.manualJitterThreshold)
                     THEN Val(d.settings.manualJitterThreshold)
                     ELSE RMul(stats.jitter, FromInt(2))
    IN  IF RLt(threshold, delta)
        THEN CreateEvent(d, "jitter", delta, Thr(threshold), timestamp)
        ELSE NoEvent(d)

DetectJitterSpike(d, latency, stats, timestamp) ==
  IF IsNone(d.lastLatency) THEN NoEvent(d)
  ELSE
    LET delta == FromInt(Abs(latency - Val(d.lastLatency)))
        threshold == IF ~IsNone(d.settings.manualJitterThreshold)
                     THEN Val(d.settings.manualJitterThreshold)
                     ELSE RMax(RMul(stats.jitter, FromInt(2)), FromInt(2))
    IN  IF RLt(threshold, delta)
        THEN CreateEvent(d, "jitter", delta, Thr(threshold), timestamp)
        ELSE NoEvent(d)

minSamples == 10

\* detect() whose loss branch forgets to clear lastLatency
DetectKeepLast(d, result, stats) ==
  IF IsNone(result.latency)
  THEN LET c == CreateEvent(d, "packet_loss", Zero, Thr(Zero), result.timestamp)
       IN  [d |-> c.d, events |-> c.ev]
  ELSE IF stats.sampleCount < minSamples
  THEN [d |-> [d EXCEPT !.lastLatency = result.latency], events |-> <<>>]
  ELSE
    LET a == DetectLatencySpike(d, Val(result.latency), stats, result.timestamp)
        b == DetectJitterSpike(a.d, Val(result.latency), stats, result.timestamp)
    IN  [d |-> [b.d EXCEPT !.lastLatency = result.latency], events |-> a.ev \o b.ev]

\* detect() without the warm-up gate
DetectNoWarmup(d, result, stats) ==
  IF IsNone(result.latency)
  THEN LET c == CreateEvent(d, "packet_loss", Zero, Thr(Zero), result.timestamp)
       IN  [d |-> [c.d EXCEPT !.lastLatency = None], events |-> c.ev]
  ELSE
    LET a == DetectLatencySpike(d, Val(result.latency), stats, result.timestamp)
        b == DetectJitterSpike(a.d, Val(result.latency), stats, result.timestamp)
    IN  [d |-> [b.d EXCEPT !.lastLatency = result.latency], events |-> a.ev \o b.ev]

\* detect(result, stats): the detector after the call and the returned events
Detect(d, result, stats) ==
  IF IsNone(result.latency)
  THEN LET c == CreateEvent(d, "packet_loss", Zero, Thr(Zero), result.timestamp)
       IN  [d |-> [c.d EXCEPT !.lastLatency = None], events |-> c.ev]
  ELSE IF stats.sampleCount < minSamples
  THEN [d |-> [d EXCEPT !.lastLatency = result.latency], events |-> <<>>]
  ELSE
    LET a == DetectLatencySpike(d, Val(result.latency), stats, result.timestamp)
        b == DetectJitterSpike(a.d, Val(result.latency), stats, result.timestamp)
    IN  [d |-> [b.d EXCEPT !.lastLatency = result.latency], events |-> a.ev \o b.ev]

\* updateSettings that also forgets the previous latency
UpdateSettingsClearLast(d, partial) ==
  [d EXCEPT !.settings = [f \in DOMAIN d.settings |->
                            IF f \in DOMAIN partial THEN partial[f] ELSE d.settings[f]],
            !.lastLatency = None]

\* object spread { ...a, ...b }
Spread(a, b) == [f \in DOMAIN a \cup DOMAIN b |-> IF f \in DOMAIN b THEN b[f] ELSE a[f]]

\* updateSettings(partial): { ...this.settings, ...settings }
UpdateSettings(d, partial) == [d EXCEPT !.settings = Spread(d.settings, partial)]

\* reset()
ResetDetector(d) == [d EXCEPT !.lastLatency = None, !.deviationCount = 0]


(***************************************************************************)
(* State.                                                                  *)
(***************************************************************************)
VARIABLES
  \* a DeviationDetector driven by direct calls of its public methods
  dd,          \* the detector: [settings, lastLatency, deviationCount]
  ddCall,      \* the last call: its operation, arguments and the detector before it
  ddOut,       \* the events returned by the last detect()
  ddIds,       \* the ids of the events returned before the last call
  ddEpochIds,  \* those of them returned since the last reset()
  ddSeen,      \* the latency of the last sample given to detect() since the last reset()
  ddCalls,     \* calls made so far
  \* calculateStats applied to a rolling window
  sw,          \* the PingService whose window is given
  swStats,     \* <<>> before the call, then <<the RollingStats returned>>
  \* the session analysis called directly
  anArgs,      \* the arguments of the calls
  anOut,       \* the values returned so far, in call order
  \* the server
  env,             \* what the environment may do in this specification (never changes)
  now,             \* Date.now()
  nextId,          \* sessions created so far; session ids are 1..nextId
  open,            \* per connection: the socket has not closed
  msgs,            \* per connection: client messages handled so far
  activeSessions,  \* per connection: the id of its active session, 0 for none
  sess,            \* per session id: the ActiveSession, its PingService and detector
  db,              \* the SQLite tables
  errs,            \* per connection: error messages sent to it
  reply,           \* the last HTTP reply
  crashed          \* an exception escaped an event handler

ddVars == <<dd, ddCall, ddOut, ddIds, ddEpochIds, ddSeen, ddCalls>>

swVars == <<sw, swStats>>

anVars == <<anArgs, anOut>>

sysVars == <<env, now, nextId, open, msgs, activeSessions, sess, db, errs, reply, crashed>>

vars == <<dd, ddCall, ddOut, ddIds, ddEpochIds, ddSeen, ddCalls, sw, swStats, anArgs, anOut,
          env, now, nextId, open, msgs, activeSessions, sess, db, errs, reply, crashed>>

\* the server after start-up, with the connections of e open and no session
InitSystem(e) ==
  /\ env = e
  /\ now = 0
  /\ nextId = 0
  /\ open = [c \in e.conns |-> TRUE]
  /\ msgs = [c \in e.conns |-> 0]
  /\ activeSessions = [c \in e.conns |-> 0]
  /\ sess = <<>>
  /\ db = [sessions |-> <<>>, ping_results |-> <<>>, deviation_events |-> {},
           session_stats |-> {}, session_analysis |-> {}, failed |-> {}]
  /\ errs = [c \in e.conns |-> 0]
  /\ reply = [status |-> 0]
  /\ crashed = FALSE

\* no connection at all: the detector is exercised on its own
NoEnv == [conns |-> {}]

(***************************************************************************)
(* Inputs of the direct calls.                                             *)
(***************************************************************************)
DEFAULT_SESSION_SETTINGS ==
  [target |-> "", interval |-> 100, detectionMethod |-> "iqr",
   iqrMultiplier |-> <<3, 2>>, zScoreThreshold |-> <<2, 1>>,
   manualLatencyThreshold |-> None, manualJitterThreshold |-> None,
   rollingWindowSize |-> 100]

BaseSettings == [DEFAULT_SESSION_SETTINGS EXCEPT !.target = "host"]

\* settings a detector is constructed with
DetSettings ==
  { [BaseSettings EXCEPT !.detectionMethod = m, !.manualLatencyThreshold = t,
                         !.manualJitterThreshold = j] :
      m \in {"iqr", "zscore", "manual"},
      t \in {None, Some(<<15, 1>>)},
      j \in {None, Some(<<5, 1>>)} }

\* Partial<SessionSettings> values passed to updateSettings
DetPartials ==
  { [detectionMethod |-> "manual", manualLatencyThreshold |-> Some(<<15, 1>>)],
    [manualJitterThreshold |-> Some(<<1, 1>>)],
    [zScoreThreshold |-> <<1, 1>>, detectionMethod |-> "zscore"] }

Rep(n, v) == [i \in 1..n |-> v]

\* rolling statistics as calculateStats produces them: below the warm-up count,
\* a flat warm window, warm windows with spread
DetStats ==
  { CalculateStats(Rep(9, 10) , <<0, 0>>),
    CalculateStats(Rep(10, 10), Rep(9, 0)),
    CalculateStats(Rep(5, 10) \o Rep(5, 12), <<0, 2, 0, 2>>),
    CalculateStats(Rep(8, 10) \o Rep(2, 30), <<0, 20, 20, 0>>) }

\* PingResult values passed to detect (seq plays no part in detection)
DetResults ==
  { [timestamp |-> t, latency |-> l, seq |-> 1] :
      t \in 0..MaxStamp, l \in {None, Some(10), Some(40)} }

Ids(events) == { events[i].id : i \in 1..Len(events) }

InitDetector ==
  /\ dd \in { NewDetector(s) : s \in DetSettings }
  /\ ddCall = [op |-> "new"]
  /\ ddOut = <<>>
  /\ ddIds = {}
  /\ ddEpochIds = {}
  /\ ddSeen = None
  /\ ddCalls = 0
  /\ sw = <<>>
  /\ swStats = None
  /\ anArgs = <<>>
  /\ anOut = <<>>
  /\ InitSystem(NoEnv)

CallDetect ==
  /\ ddCalls < MaxCalls
  /\ \E result \in DetResults, stats \in DetStats :
       LET r == Detect(dd, result, stats)
       IN  /\ dd' = r.d
           /\ ddOut' = r.events
           /\ ddCall' = [op |-> "detect", result |-> result, stats |-> stats, before |-> dd]
           /\ ddSeen' = result.latency
  /\ ddIds' = ddIds \cup Ids(ddOut)
  /\ ddEpochIds' = ddEpochIds \cup Ids(ddOut)
  /\ ddCalls' = ddCalls + 1
  /\ UNCHANGED <<sysVars, swVars, anVars>>

CallUpdateSettings ==
  /\ ddCalls < MaxCalls
  /\ \E partial \in DetPartials :
       /\ dd' = UpdateSettings(dd, partial)
       /\ ddCall' = [op |-> "updateSettings", partial |-> partial, before |-> dd]
  /\ ddOut' = <<>>
  /\ ddIds' = ddIds \cup Ids(ddOut)
  /\ ddEpochIds' = ddEpochIds \cup Ids(ddOut)
  /\ UNCHANGED <<ddSeen, sysVars, swVars, anVars>>
  /\ ddCalls' = ddCalls + 1

CallReset ==
  /\ ddCalls < MaxCalls
  /\ dd' = ResetDetector(dd)
  /\ ddCall' = [op |-> "reset", before |-> dd]
  /\ ddOut' = <<>>
  /\ ddIds' = ddIds \cup Ids(ddOut)
  /\ ddEpochIds' = {}
  /\ ddSeen' = None
  /\ ddCalls' = ddCalls + 1
  /\ UNCHANGED <<sysVars, swVars, anVars>>

CallGetDeviationCount ==
  /\ ddCalls < MaxCalls
  /\ ddCall' = [op |-> "getDeviationCount", returned |-> dd.deviationCount, before |-> dd]
  /\ ddOut' = <<>>
  /\ ddIds' = ddIds \cup Ids(ddOut)
  /\ ddEpochIds' = ddEpochIds \cup Ids(ddOut)
  /\ ddCalls' = ddCalls + 1
  /\ UNCHANGED <<dd, ddSeen, sysVars, swVars, anVars>>

NextDetector == CallDetect \/ CallUpdateSettings \/ CallReset \/ CallGetDeviationCount

SpecDetector == InitDetector /\ [][NextDetector]_vars

(***************************************************************************)
(* Claims about the DeviationDetector under direct calls (SpecDetector).   *)
(***************************************************************************)
DetectCalled == ddCall.op = "detect"
LossCalled == DetectCalled /\ IsNone(ddCall.result.latency)
SuccessCalled == DetectCalled /\ ~IsNone(ddCall.result.latency)
Types(events) == { events[i].type : i \in 1..Len(events) }

\* C1: detect() on a sample whose latency is null returns exactly one event, a
\* packet_loss with value 0 and threshold 0 (so no latency_spike and no jitter
\* event), and leaves lastLatency null, whatever the detector state, the
\* settings and the stats.
C1_LossEmitsOnlyPacketLoss ==
  LossCalled =>
    /\ Len(ddOut) = 1
    /\ ddOut[1].type = "packet_loss"
    /\ ddOut[1].value = Zero
    /\ ddOut[1].threshold = Thr(Zero)
    /\ ddOut[1].timestamp = ddCall.result.timestamp
    /\ dd.lastLatency = None

\* a loss given to a warm detector that held a previous latency
C1_Witness ==
  /\ LossCalled
  /\ ~IsNone(ddCall.before.lastLatency)
  /\ ddCall.stats.sampleCount >= minSamples
  /\ Len(ddOut) = 1

\* C2: a successful sample given to detect() with stats.sampleCount < 10 returns
\* no event under every detection method and every threshold setting, and
\* lastLatency becomes the sample's latency.
C2_WarmupGate ==
  (SuccessCalled /\ ddCall.stats.sampleCount < minSamples) =>
    /\ ddOut = <<>>
    /\ dd.lastLatency = ddCall.result.latency
    /\ dd.deviationCount = ddCall.before.deviationCount

\* below the warm-up count, a sample above the manual latency threshold and
\* further from the previous latency than the manual jitter threshold
C2_Witness ==
  /\ SuccessCalled
  /\ ddCall.stats.sampleCount < minSamples
  /\ ddCall.before.settings.detectionMethod = "manual"
  /\ ~IsNone(ddCall.before.settings.manualLatencyThreshold)
  /\ RLt(Val(ddCall.before.settings.manualLatencyThreshold),
         FromInt(Val(ddCall.result.latency)))
  /\ ~IsNone(ddCall.before.settings.manualJitterThreshold)
  /\ ~IsNone(ddCall.before.lastLatency)
  /\ RLt(Val(ddCall.before.settings.manualJitterThreshold),
         FromInt(Abs(Val(ddCall.result.latency) - Val(ddCall.before.lastLatency))))

\* C5 as stated: over detect, updateSettings, reset and getDeviationCount the
\* event counter never decreases and every returned id differs from every id
\* the detector returned before.
C5_CounterMonotonicIdsFresh ==
  ddCall.op # "new" =>
    /\ dd.deviationCount >= ddCall.before.deviationCount
    /\ Ids(ddOut) \cap ddIds = {}
    /\ Cardinality(Ids(ddOut)) = Len(ddOut)

\* C5 amended: the counter never decreases under detect, updateSettings and
\* getDeviationCount, and reset() sets it to 0; every returned id differs from
\* every id returned since the last reset() (since construction if none).
C5_MonotonicBetweenResets ==
  ddCall.op # "new" =>
    /\ ddCall.op # "reset" => dd.deviationCount >= ddCall.before.deviationCount
    /\ ddCall.op = "reset" => dd.deviationCount = 0
    /\ dd.deviationCount = ddCall.before.deviationCount + Len(ddOut)
         \/ ddCall.op = "reset"
    /\ Ids(ddOut) \cap ddEpochIds = {}
    /\ Cardinality(Ids(ddOut)) = Len(ddOut)

\* a third event of the detector, returned with another event of the same
\* timestamp and after an earlier event of that timestamp
C5_Witness ==
  /\ DetectCalled
  /\ Len(ddOut) = 2
  /\ dd.deviationCount >= 3
  /\ \E i \in ddEpochIds : \E t \in {"packet_loss", "latency_spike", "jitter"} :
       \E c \in 1..MaxCalls : i = EventId(t, ddCall.result.timestamp, c)

\* C7: updateSettings(partial) replaces exactly the settings fields present in
\* partial; the other settings, lastLatency and the event counter are
\* unchanged, so lastLatency still is the latency of the sample seen before
\* the update and the next jitter check compares against it.
C7_UpdateSettingsFrame ==
  ddCall.op = "updateSettings" =>
    /\ DOMAIN dd.settings = DOMAIN ddCall.before.settings
    /\ \A f \in DOMAIN ddCall.partial : dd.settings[f] = ddCall.partial[f]
    /\ \A f \in DOMAIN dd.settings \ DOMAIN ddCall.partial :
         dd.settings[f] = ddCall.before.settings[f]
    /\ dd.lastLatency = ddCall.before.lastLatency
    /\ dd.lastLatency = ddSeen
    /\ dd.deviationCount = ddCall.before.deviationCount

\* an update that changes a setting of a detector that holds a previous latency
\* and has emitted events
C7_Witness ==
  /\ ddCall.op = "updateSettings"
  /\ dd.settings # ddCall.before.settings
  /\ ~IsNone(dd.lastLatency)
  /\ dd.deviationCount > 0

(***************************************************************************)
(* PingService.  A service is the record                                   *)
(*   [settings, isRunning, seq, timeoutId, timers, armedAt, callback,      *)
(*    latencies, deltas, lastLatency, inflight, done, prevDeltas,          *)
(*    successes, history, rejections, rare]                                *)
(* timers counts the pending setTimeout callbacks and timeoutId tells      *)
(* whether the stored handle is null, pending or fired; inflight holds the *)
(* probes awaited by executePing; done holds the latencies of the last two *)
(* completed probes and prevDeltas the delta buffer before the last one;   *)
(* successes holds every latency measured since the service was created   *)
(* and history the latency or loss of every completed probe;               *)
(* rejections counts the executePing promises that rejected and rare the   *)
(* probe outcomes that the specification's environment rations.            *)
(***************************************************************************)
NewPingService(settings) ==
  [settings |-> settings, isRunning |-> FALSE, seq |-> 0, timeoutId |-> "null",
   timers |-> 0, armedAt |-> 0, callback |-> FALSE,
   latencies |-> <<>>, deltas |-> <<>>, lastLatency |-> None,
   inflight |-> <<>>, done |-> <<>>, prevDeltas |-> <<>>, successes |-> <<>>,
   history |-> <<>>, rejections |-> 0, rare |-> 0]

\* scheduleNextPing
ScheduleNextPing(p, t) ==
  IF ~p.isRunning THEN p
  ELSE [p EXCEPT !.timers = @ + 1, !.timeoutId = "pending", !.armedAt = t]

\* start(callback)
PsStart(p, t) ==
  IF p.isRunning THEN p
  ELSE ScheduleNextPing([p EXCEPT !.isRunning = TRUE, !.callback = TRUE, !.seq = 0,
                                  !.latencies = <<>>, !.deltas = <<>>,
                                  !.lastLatency = None], t)

\* stop()
PsStop(p) ==
  [p EXCEPT !.isRunning = FALSE,
            !.timers = IF p.timeoutId = "pending" THEN @ - 1 ELSE @,
            !.timeoutId = "null",
            !.callback = FALSE]

\* executePing that arms the next timer before it awaits the probe
ExecutePingBeginEager(p, t) ==
  IF ~p.isRunning \/ ~p.callback THEN p
  ELSE ScheduleNextPing([p EXCEPT !.seq = @ + 1,
                                  !.inflight = Append(@, [timestamp |-> t])], t)

\* executePing up to the await: the guard, the timestamp, seq++ and the probe sent
ExecutePingBegin(p, t) ==
  IF ~p.isRunning \/ ~p.callback THEN p
  ELSE [p EXCEPT !.seq = @ + 1, !.inflight = Append(@, [timestamp |-> t])]

\* a buffer that is never trimmed
TrimNothing(buf, w) == buf

\* the last w entries after one push (one shift when the length exceeds w)
Trim(buf, w) == IF Len(buf) > w THEN Tail(buf) ELSE buf

\* updateRollingWindow that keeps lastLatency across a loss
UpdateRollingWindowKeepLast(p, latency) ==
  IF ~IsNone(latency)
  THEN [p EXCEPT
          !.latencies = Trim(Append(@, Val(latency)), p.settings.rollingWindowSize),
          !.deltas = IF ~IsNone(p.lastLatency)
                     THEN Trim(Append(@, Abs(Val(latency) - Val(p.lastLatency))),
                               p.settings.rollingWindowSize)
                     ELSE Trim(@, p.settings.rollingWindowSize),
          !.lastLatency = latency]
  ELSE p

\* updateRollingWindow that gives a loss a slot of latency 0
UpdateRollingWindowLossSlot(p, latency) ==
  IF ~IsNone(latency)
  THEN [p EXCEPT
          !.latencies = Trim(Append(@, Val(latency)), p.settings.rollingWindowSize),
          !.deltas = IF ~IsNone(p.lastLatency)
                     THEN Trim(Append(@, Abs(Val(latency) - Val(p.lastLatency))),
                               p.settings.rollingWindowSize)
                     ELSE Trim(@, p.settings.rollingWindowSize),
          !.lastLatency = latency]
  ELSE [p EXCEPT !.latencies = Trim(Append(@, 0), p.settings.rollingWindowSize),
                 !.lastLatency = None]

\* updateRollingWindow(latency)
UpdateRollingWindow(p, latency) ==
  IF ~IsNone(latency)
  THEN [p EXCEPT
          !.latencies = Trim(Append(@, Val(latency)), p.settings.rollingWindowSize),
          !.deltas = IF ~IsNone(p.lastLatency)
                     THEN Trim(Append(@, Abs(Val(latency) - Val(p.lastLatency))),
                               p.settings.rollingWindowSize)
                     ELSE Trim(@, p.settings.rollingWindowSize),
          !.lastLatency = latency]
  ELSE [p EXCEPT !.lastLatency = None]

\* getLatencies()
GetLatencies(p) == p.latencies

(***************************************************************************)
(* The SQLite tables (db/queries.ts).                                      *)
(***************************************************************************)
\* createSession
CreateSessionRow(d, id, settings) ==
  [d EXCEPT !.sessions = Append(@, [id |-> id, endedAt |-> None, settings |-> settings])]

\* endSession
EndSessionRow(d, id, t) == [d EXCEPT !.sessions[id].endedAt = Some(t)]

\* getSession: does the row exist
HasSession(d, id) == id \in 1..Len(d.sessions)

\* a flush that leaves out the last result of the batch
SavePingResultsButLast(d, id, results) ==
  [d EXCEPT !.ping_results =
     @ \o [i \in 1..(Len(results) - 1) |->
             [session_id |-> id, timestamp |-> results[i].timestamp,
              latency |-> results[i].latency, seq |-> results[i].seq]]]

\* savePingResult for each result of a batch, in order
SavePingResults(d, id, results) ==
  [d EXCEPT !.ping_results =
     @ \o [i \in 1..Len(results) |->
             [session_id |-> id, timestamp |-> results[i].timestamp,
              latency |-> results[i].latency, seq |-> results[i].seq]]]

\* the rows of one session, as SELECT ... WHERE session_id = ? yields them
RECURSIVE RowsOf(_, _)
RowsOf(rows, id) ==
  IF rows = <<>> THEN <<>>
  ELSE IF Head(rows).session_id = id
       THEN <<[timestamp |-> Head(rows).timestamp, latency |-> Head(rows).latency,
               seq |-> Head(rows).seq]>> \o RowsOf(Tail(rows), id)
       ELSE RowsOf(Tail(rows), id)

RECURSIVE InsertByTimestamp(_, _)
InsertByTimestamp(r, s) ==
  IF s = <<>> THEN <<r>>
  ELSE IF r.timestamp < Head(s).timestamp THEN <<r>> \o s
  ELSE <<Head(s)>> \o InsertByTimestamp(r, Tail(s))

RECURSIVE SortByTimestamp(_)
SortByTimestamp(s) ==
  IF s = <<>> THEN <<>>
  ELSE InsertByTimestamp(s[Len(s)], SortByTimestamp(SubSeq(s, 1, Len(s) - 1)))

\* getPingResults: ORDER BY timestamp ASC
GetPingResults(d, id) == SortByTimestamp(RowsOf(d.ping_results, id))

\* saveDeviationEvent for each event in order, without a transaction: the rows
\* before the first id that is already a primary key are kept, that INSERT throws
RECURSIVE SaveDeviationEvents(_, _, _)
SaveDeviationEvents(d, id, events) ==
  IF events = <<>> THEN [d |-> d, threw |-> FALSE]
  ELSE IF \E r \in d.deviation_events : r.id = Head(events).id
  THEN [d |-> [d EXCEPT !.failed = @ \cup {[session_id |-> id, id |-> Head(events).id]}],
        threw |-> TRUE]
  ELSE SaveDeviationEvents(
         [d EXCEPT !.deviation_events =
            @ \cup {[id |-> Head(events).id, session_id |-> id,
                     timestamp |-> Head(events).timestamp, type |-> Head(events).type,
                     value |-> Head(events).value,
                     threshold |-> Head(events).threshold]}],
         id, Tail(events))

\* INSERT OR REPLACE keyed by session_id
Upsert(rows, row) == {r \in rows : r.sessionId # row.sessionId} \cup {row}

\* saveSessionStats
SaveSessionStats(d, id, stats) ==
  [d EXCEPT !.session_stats = Upsert(@, [sessionId |-> id, stats |-> stats])]

\* saveSessionAnalysis
SaveSessionAnalysis(d, analysis) ==
  [d EXCEPT !.session_analysis = Upsert(@, analysis)]

\* getSessionAnalysis: the stored rows of the session (none or one)
GetSessionAnalysis(d, id) == {r \in d.session_analysis : r.sessionId = id}

(***************************************************************************)
(* The session analysis (services/analysis.service.ts).  Numbers that the  *)
(* code divides are exact rationals; intervals are in seconds.             *)
(***************************************************************************)
THRESHOLD_LEVELS == <<10, 20, 50, 100>>

BURST_GAP_MS == 5000

SPIKE_THRESHOLD_MS == 10

\* a || b on numbers: b when a is 0 (an index past the end does not occur)
OrElse(a, b) == IF a = 0 THEN b ELSE a

RECURSIVE Select(_, _)
\* s.filter(keep), keep being the set of values kept
Select(s, keep) ==
  IF s = <<>> THEN <<>>
  ELSE IF Head(s) \in keep THEN <<Head(s)>> \o Select(Tail(s), keep)
  ELSE Select(Tail(s), keep)

\* the latencies of the results with a loss counted as a latency of 100 ms
LatenciesOfLossAsSlow(results) ==
  [i \in 1..Len(results) |->
     IF IsNone(results[i].latency) THEN 100 ELSE Val(results[i].latency)]

\* the latencies of the successful results, in order
LatenciesOf(results) ==
  LET ok == Select(results, {r \in {results[i] : i \in 1..Len(results)} : ~IsNone(r.latency)})
  IN  [i \in 1..Len(ok) |-> Val(ok[i].latency)]

\* milliseconds to seconds: x / 1000
Seconds(x) == RMul(x, <<1, 1000>>)

\* computeTimingMetrics
ComputeTimingMetrics(sortedResults) ==
  IF Len(sortedResults) < 2
  THEN [spanSeconds |-> Zero, sampleCount |-> Len(sortedResults),
        samplingIntervalMean |-> Zero, samplingIntervalMedian |-> Zero,
        samplingIntervalP95 |-> Zero]
  ELSE
    LET intervals == [i \in 1..(Len(sortedResults) - 1) |->
                        sortedResults[i + 1].timestamp - sortedResults[i].timestamp]
        sortedIntervals == SortAsc(intervals)
        n == Len(sortedIntervals)
    IN  [spanSeconds |-> Seconds(FromInt(sortedResults[Len(sortedResults)].timestamp
                                         - sortedResults[1].timestamp)),
         sampleCount |-> Len(sortedResults),
         samplingIntervalMean |-> Seconds(Norm(SumSeq(intervals), n)),
         samplingIntervalMedian |-> Seconds(Median(sortedIntervals)),
         samplingIntervalP95 |-> Seconds(FromInt(OrElse(At(sortedIntervals, FloorPct(n, 95)), 0)))]

\* computeLatencyStats
ComputeLatencyStats(latencies) ==
  IF Len(latencies) = 0
  THEN [latencyMin |-> 0, latencyMean |-> Zero, latencyMedian |-> Zero, latencyP95 |-> 0,
        latencyP99 |-> 0, latencyMax |-> 0, latencyVariance |-> Zero]
  ELSE
    LET sorted == SortAsc(latencies)
        n == Len(sorted)
        sum == SumSeq(sorted)
    IN  [latencyMin |-> At(sorted, 0),
         latencyMean |-> Norm(sum, n),
         latencyMedian |-> Median(sorted),
         latencyP95 |-> OrElse(At(sorted, FloorPct(n, 95)), At(sorted, n - 1)),
         latencyP99 |-> OrElse(At(sorted, FloorPct(n, 99)), At(sorted, n - 1)),
         latencyMax |-> At(sorted, n - 1),
         \* latencyStdDev = Math.sqrt(latencyVariance)
         latencyVariance |-> Norm(SumSqDev(sorted, n, sum), n * n * n)]

\* one entry of the thresholds list: (count / total) * 100
ThresholdCount(threshold, count, total) ==
  [thresholdMs |-> threshold, count |-> count, percentage |-> Norm(count * 100, total)]

\* computeThresholdCounts
ComputeThresholdCounts(latencies) ==
  LET total == Len(latencies)
  IN  IF total = 0
      THEN [k \in 1..Len(THRESHOLD_LEVELS) |->
              [thresholdMs |-> THRESHOLD_LEVELS[k], count |-> 0, percentage |-> Zero]]
      ELSE [k \in 1..Len(THRESHOLD_LEVELS) |->
              ThresholdCount(THRESHOLD_LEVELS[k],
                             Cardinality({i \in 1..total : latencies[i] >= THRESHOLD_LEVELS[k]}),
                             total)]

\* createBurst
CreateBurst(index, samples) ==
  LET latencies == LatenciesOf(samples)
  IN  [index |-> index,
       startTimestamp |-> samples[1].timestamp,
       endTimestamp |-> samples[Len(samples)].timestamp,
       sampleCount |-> Len(samples),
       maxLatency |-> IF Len(latencies) > 0
                      THEN At(SortAsc(latencies), Len(latencies) - 1) ELSE 0,
       meanLatency |-> IF Len(latencies) > 0
                       THEN Norm(SumSeq(latencies), Len(latencies)) ELSE Zero]

\* a gap that starts a new burst only when it reaches BURST_GAP_MS
ContinuesBurstStrict(gap) == gap < BURST_GAP_MS

\* gap <= BURST_GAP_MS: the spike sample continues the current burst
ContinuesBurst(gap) == gap <= BURST_GAP_MS

RECURSIVE GroupBursts(_, _, _, _)
\* the loop over spikeSamples from index i, with the bursts closed so far and the
\* samples of the current burst; the last burst is pushed after the loop
GroupBursts(spikeSamples, i, bursts, currentBurst) ==
  IF i > Len(spikeSamples)
  THEN Append(bursts, CreateBurst(Len(bursts), currentBurst))
  ELSE IF ContinuesBurst(spikeSamples[i].timestamp - spikeSamples[i - 1].timestamp)
  THEN GroupBursts(spikeSamples, i + 1, bursts, Append(currentBurst, spikeSamples[i]))
  ELSE GroupBursts(spikeSamples, i + 1,
                   Append(bursts, CreateBurst(Len(bursts), currentBurst)),
                   <<spikeSamples[i]>>)

\* computeBurstAnalysis
ComputeBurstAnalysis(sortedResults) ==
  LET spikeSamples ==
        Select(sortedResults,
               {r \in {sortedResults[i] : i \in 1..Len(sortedResults)} :
                  IsNone(r.latency) \/ Val(r.latency) >= SPIKE_THRESHOLD_MS})
  IN  IF Len(spikeSamples) = 0
      THEN [burstCount |-> 0, burstSizeMedian |-> Zero, burstSizeMax |-> 0,
            interBurstIntervalMedian |-> None, interBurstIntervalP95 |-> None,
            bursts |-> <<>>]
      ELSE
        LET bursts == GroupBursts(spikeSamples, 2, <<>>, <<spikeSamples[1]>>)
            sortedSizes == SortAsc([i \in 1..Len(bursts) |-> bursts[i].sampleCount])
            n == Len(sortedSizes)
            intervals == [i \in 1..(Len(bursts) - 1) |->
                            bursts[i + 1].startTimestamp - bursts[i].endTimestamp]
            sortedIntervals == SortAsc(intervals)
            m == Len(sortedIntervals)
        IN  [burstCount |-> Len(bursts),
             burstSizeMedian |-> Median(sortedSizes),
             burstSizeMax |-> At(sortedSizes, n - 1),
             interBurstIntervalMedian |->
               IF Len(bursts) > 1 THEN Some(Seconds(Median(sortedIntervals))) ELSE None,
             interBurstIntervalP95 |->
               IF Len(bursts) > 1
               THEN Some(Seconds(FromInt(OrElse(At(sortedIntervals, FloorPct(m, 95)),
                                                At(sortedIntervals, m - 1)))))
               ELSE None,
             bursts |-> bursts]

\* thresholds.find((t) => t.thresholdMs === level)?.percentage || 0
PercentageAt(thresholds, level) ==
  IF \E k \in 1..Len(thresholds) : thresholds[k].thresholdMs = level
  THEN thresholds[CHOOSE k \in 1..Len(thresholds) :
                    /\ thresholds[k].thresholdMs = level
                    /\ \A j \in 1..(k - 1) : thresholds[j].thresholdMs # level].percentage
  ELSE Zero

\* the grade cascade with the rules for B and C in the other order
GradeCFirst(pct10ms, pct20ms, p95) ==
  IF RLt(pct10ms, FromInt(1)) /\ p95 < 10 THEN "A"
  ELSE IF RLt(pct10ms, FromInt(5)) \/ (RLt(pct20ms, FromInt(1)) /\ RLt(pct10ms, FromInt(10)))
  THEN "C"
  ELSE IF RLt(pct10ms, FromInt(3)) /\ RLt(pct20ms, FromInt(1)) THEN "B"
  ELSE IF RLt(pct10ms, FromInt(10)) \/ RLt(pct20ms, FromInt(3)) THEN "D"
  ELSE "F"

\* the if / else-if chain of assessQuality
Grade(pct10ms, pct20ms, p95) ==
  IF RLt(pct10ms, FromInt(1)) /\ p95 < 10 THEN "A"
  ELSE IF RLt(pct10ms, FromInt(3)) /\ RLt(pct20ms, FromInt(1)) THEN "B"
  ELSE IF RLt(pct10ms, FromInt(5)) \/ (RLt(pct20ms, FromInt(1)) /\ RLt(pct10ms, FromInt(10)))
  THEN "C"
  ELSE IF RLt(pct10ms, FromInt(10)) \/ RLt(pct20ms, FromInt(3)) THEN "D"
  ELSE "F"

\* the numbers each grade's summary embeds (each printed with toFixed(1))
SummaryText ==
  [A |-> "Excellent for game streaming.", B |-> "Good for most streaming.",
   C |-> "Acceptable with occasional hiccups.", D |-> "Noticeable latency issues.",
   F |-> "Poor for streaming."]

\* assessQuality; the summary is the sentence and the numbers it embeds
AssessQuality(latencyStats, thresholds, sampleCount) ==
  IF sampleCount = 0
  THEN [qualityGrade |-> "F", qualitySummary |-> <<"No data available for analysis.">>]
  ELSE
    LET pct10ms == PercentageAt(thresholds, 10)
        pct20ms == PercentageAt(thresholds, 20)
        pct50ms == PercentageAt(thresholds, 50)
        p95 == latencyStats.latencyP95
        grade == Grade(pct10ms, pct20ms, p95)
    IN  [qualityGrade |-> grade,
         qualitySummary |->
           CASE grade \in {"A", "B"} ->
                  <<SummaryText[grade], RSub(FromInt(100), pct10ms), FromInt(p95)>>
             [] grade = "C" -> <<SummaryText[grade], pct10ms, FromInt(p95)>>
             [] grade = "D" -> <<SummaryText[grade], pct10ms, pct20ms>>
             [] OTHER -> <<SummaryText[grade], pct10ms, pct50ms>>]

\* computeSessionAnalysis that measures the span up to the time of the call
ComputeSessionAnalysisSpanToNow(id, pingResults, t) ==
  LET latencies == LatenciesOf(pingResults)
      sortedResults == SortByTimestamp(pingResults)
      timing == ComputeTimingMetrics(sortedResults)
      latencyStats == ComputeLatencyStats(latencies)
      thresholds == ComputeThresholdCounts(latencies)
  IN  Spread(Spread(Spread(Spread(
        [sessionId |-> id, computedAt |-> t],
        [timing EXCEPT !.spanSeconds =
           IF Len(sortedResults) = 0 THEN Zero
           ELSE Seconds(FromInt(t - sortedResults[1].timestamp))]),
        latencyStats),
        Spread([thresholds |-> thresholds], ComputeBurstAnalysis(sortedResults))),
        AssessQuality(latencyStats, thresholds, timing.sampleCount))

\* computeSessionAnalysis(sessionId, pingResults) called when Date.now() is t
ComputeSessionAnalysis(id, pingResults, t) ==
  LET latencies == LatenciesOf(pingResults)
      sortedResults == SortByTimestamp(pingResults)
      timing == ComputeTimingMetrics(sortedResults)
      latencyStats == ComputeLatencyStats(latencies)
      thresholds == ComputeThresholdCounts(latencies)
  IN  Spread(Spread(Spread(Spread(
        [sessionId |-> id, computedAt |-> t],
        timing),
        latencyStats),
        Spread([thresholds |-> thresholds], ComputeBurstAnalysis(sortedResults))),
        AssessQuality(latencyStats, thresholds, timing.sampleCount))

(***************************************************************************)
(* The session layer (routes/websocket.ts).  A session is the record       *)
(*   [id, conn, ps, det, pingResults, deviationEvents, totalPings,         *)
(*    successfulPings, delivered, samples, lastEvents, endedMsgs]          *)
(* delivered holds the last two results given to onPing, samples all of    *)
(* them, lastEvents the events of the last one, endedMsgs the              *)
(* session_ended messages sent.                                            *)
(***************************************************************************)
LastTwo(s) == IF Len(s) > 2 THEN Tail(s) ELSE s

NewSession(id, c, settings) ==
  [id |-> id, conn |-> c, ps |-> NewPingService(settings), det |-> NewDetector(settings),
   pingResults |-> <<>>, deviationEvents |-> <<>>, totalPings |-> 0,
   successfulPings |-> 0, delivered |-> <<>>, samples |-> <<>>, lastEvents |-> <<>>,
   endedMsgs |-> 0]

\* target is missing or blank: !settings.target || settings.target.trim() === ''
IsBlank(target) == target \in {"", " ", "  "}

RECURSIVE SumAbsDiffs(_)
SumAbsDiffs(s) ==
  IF Len(s) < 2 THEN 0 ELSE Abs(s[2] - s[1]) + SumAbsDiffs(Tail(s))

MinTs(events) == CHOOSE t \in {events[i].timestamp : i \in 1..Len(events)} :
                   \A i \in 1..Len(events) : t <= events[i].timestamp
MaxTs(events) == CHOOSE t \in {events[i].timestamp : i \in 1..Len(events)} :
                   \A i \in 1..Len(events) : t >= events[i].timestamp

\* calculateFinalStats(totalPings, successfulPings, latencies, deviations)
CalculateFinalStats(totalPings, successfulPings, latencies, deviations) ==
  LET packetLoss == IF totalPings > 0
                    THEN Norm((totalPings - successfulPings) * 100, totalPings)
                    ELSE Zero
  IN
  IF Len(latencies) = 0
  THEN [totalPings |-> totalPings, successfulPings |-> successfulPings,
        packetLoss |-> packetLoss, latencyMin |-> 0, latencyMax |-> 0,
        latencyMean |-> Zero, latencyMedian |-> Zero, latencyVariance |-> Zero,
        latencyP95 |-> 0, latencyP99 |-> 0, jitterMean |-> Zero,
        deviationCount |-> Len(deviations), meanTimeBetweenDeviations |-> None]
  ELSE
    LET sorted == SortAsc(latencies)
        n == Len(sorted)
        sum == SumSeq(sorted)
    IN  [totalPings |-> totalPings, successfulPings |-> successfulPings,
         packetLoss |-> packetLoss,
         latencyMin |-> At(sorted, 0),
         latencyMax |-> At(sorted, n - 1),
         latencyMean |-> Norm(sum, n),
         latencyMedian |-> Median(sorted),
         \* latencyStdDev = Math.sqrt(latencyVariance)
         latencyVariance |-> Norm(SumSqDev(sorted, n, sum), n * n * n),
         latencyP95 |-> At(sorted, P95Index(n)),
         latencyP99 |-> At(sorted, P99Index(n)),
         jitterMean |-> IF Len(latencies) > 1
                        THEN Norm(SumAbsDiffs(latencies), Len(latencies) - 1)
                        ELSE Zero,
         deviationCount |-> Len(deviations),
         \* the gaps between the events sorted by timestamp add up to last - first
         meanTimeBetweenDeviations |->
           IF Len(deviations) > 1
           THEN Some(Norm(MaxTs(deviations) - MinTs(deviations), Len(deviations) - 1))
           ELSE None]

\* the onPing callback: the session after it and the batch it saves, if any
OnPing(a, result, stats) ==
  LET total == a.totalPings + 1
      succ == a.successfulPings + (IF IsNone(result.latency) THEN 0 ELSE 1)
      statsWithPacketLoss ==
        [stats EXCEPT !.packetLossRate = Norm((total - succ) * 100, total)]
      r == Detect(a.det, result, statsWithPacketLoss)
      buf == Append(a.pingResults, result)
      flush == Len(buf) >= FlushBatchSize
  IN  [a |-> [a EXCEPT !.totalPings = total,
                       !.successfulPings = succ,
                       !.det = r.d,
                       !.deviationEvents = @ \o r.events,
                       !.pingResults = IF flush THEN <<>> ELSE buf,
                       !.delivered = LastTwo(Append(@, result)),
                       !.samples = Append(@, result),
                       !.lastEvents = r.events],
       save |-> IF flush THEN buf ELSE <<>>]

\* stopSession(socket, active) at time t: the session and the tables after it, and
\* whether an INSERT threw (the statements after it are then not executed)
StopSession(a, d, t) ==
  LET a1 == [a EXCEPT !.ps = PsStop(@), !.pingResults = <<>>]
      d1 == IF Len(a.pingResults) > 0 THEN SavePingResults(d, a.id, a.pingResults) ELSE d
      sv == SaveDeviationEvents(d1, a.id, a.deviationEvents)
      stats == CalculateFinalStats(a.totalPings, a.successfulPings,
                                   GetLatencies(a1.ps), a.deviationEvents)
      d2 == EndSessionRow(SaveSessionStats(sv.d, a.id, stats), a.id, t)
      allPingResults == GetPingResults(d2, a.id)
      d3 == IF Len(allPingResults) > 0
            THEN SaveSessionAnalysis(d2, ComputeSessionAnalysis(a.id, allPingResults, t))
            ELSE d2
  IN  IF sv.threw
      THEN [a |-> a1, d |-> sv.d, threw |-> TRUE]
      ELSE [a |-> [a1 EXCEPT !.endedMsgs = @ + 1], d |-> d3, threw |-> FALSE]

\* the sessions, the tables and the map of active sessions once stopSession has
\* returned or thrown st for the connection's active session: the map entry is
\* deleted by its last statement, so it stays when the call throws
Stopped(c, st) ==
  [sess |-> [sess EXCEPT ![activeSessions[c]] = st.a],
   d |-> st.d,
   threw |-> st.threw,
   active |-> IF st.threw THEN activeSessions
              ELSE [activeSessions EXCEPT ![c] = 0]]

\* the connection's active session stopped, if it has one
StopActive(c) ==
  IF activeSessions[c] = 0
  THEN [sess |-> sess, d |-> db, threw |-> FALSE, active |-> activeSessions]
  ELSE Stopped(c, StopSession(sess[activeSessions[c]], db, now))

CanReceive(c) == ~crashed /\ open[c] /\ msgs[c] < env.maxMsgs

\* message start_session
StartSession(c, settings) ==
  /\ CanReceive(c)
  /\ IsBlank(settings.target) \/ nextId < env.maxSessions
  /\ msgs' = [msgs EXCEPT ![c] = @ + 1]
  /\ \E st \in {StopActive(c)} :
     LET id == nextId + 1
         mergedSettings == Spread(DEFAULT_SESSION_SETTINGS, settings)
         new == NewSession(id, c, mergedSettings)
     IN  IF st.threw
         THEN \* the exception reaches the message handler's catch
              /\ sess' = st.sess
              /\ db' = st.d
              /\ errs' = [errs EXCEPT ![c] = @ + 1]
              /\ UNCHANGED <<activeSessions, nextId>>
         ELSE IF IsBlank(settings.target)
         THEN /\ sess' = st.sess
              /\ db' = st.d
              /\ activeSessions' = st.active
              /\ errs' = [errs EXCEPT ![c] = @ + 1]
              /\ UNCHANGED nextId
         ELSE /\ sess' = Append(st.sess, [new EXCEPT !.ps = PsStart(@, now)])
              /\ db' = CreateSessionRow(st.d, id, mergedSettings)
              /\ activeSessions' = [st.active EXCEPT ![c] = id]
              /\ nextId' = id
              /\ UNCHANGED errs
  /\ UNCHANGED <<ddVars, swVars, anVars, env, now, open, reply, crashed>>

\* message stop_session
StopSessionMsg(c) ==
  /\ CanReceive(c)
  /\ msgs' = [msgs EXCEPT ![c] = @ + 1]
  /\ \E st \in {StopActive(c)} :
         /\ sess' = st.sess
         /\ db' = st.d
         /\ activeSessions' = st.active
         /\ errs' = IF st.threw THEN [errs EXCEPT ![c] = @ + 1] ELSE errs
  /\ UNCHANGED <<ddVars, swVars, anVars, env, now, nextId, open, reply, crashed>>

\* update_settings that also reaches the settings object of the PingService
UpdateSettingsMsgShared(c, partial) ==
  /\ CanReceive(c)
  /\ msgs' = [msgs EXCEPT ![c] = @ + 1]
  /\ sess' = IF activeSessions[c] = 0 THEN sess
             ELSE [sess EXCEPT ![activeSessions[c]].det = UpdateSettings(@, partial),
                               ![activeSessions[c]].ps.settings = Spread(@, partial)]
  /\ UNCHANGED <<ddVars, swVars, anVars, env, now, nextId, open, activeSessions, db, errs, reply, crashed>>

\* message update_settings
UpdateSettingsMsg(c, partial) ==
  /\ CanReceive(c)
  /\ msgs' = [msgs EXCEPT ![c] = @ + 1]
  /\ sess' = IF activeSessions[c] = 0 THEN sess
             ELSE [sess EXCEPT ![activeSessions[c]].det = UpdateSettings(@, partial)]
  /\ UNCHANGED <<ddVars, swVars, anVars, env, now, nextId, open, activeSessions, db, errs, reply, crashed>>

\* socket close
Close(c) ==
  /\ ~crashed
  /\ open[c]
  /\ open' = [open EXCEPT ![c] = FALSE]
  /\ \E st \in {StopActive(c)} :
         /\ sess' = st.sess
         /\ db' = st.d
         /\ activeSessions' = st.active
         /\ crashed' = st.threw
  /\ UNCHANGED <<ddVars, swVars, anVars, env, now, nextId, msgs, errs, reply>>

\* a setTimeout callback of session s runs executePing up to its await
TimerFire(s) ==
  /\ ~crashed
  /\ sess[s].ps.timers > 0
  /\ sess[s].ps.seq < env.maxPings
  /\ \E d \in env.advance :
       /\ now + d > sess[s].ps.armedAt
       /\ now' = now + d
       /\ sess' = [sess EXCEPT ![s].ps =
                     ExecutePingBegin([@ EXCEPT !.timers = @ - 1, !.timeoutId = "fired"],
                                      now + d)]
  /\ UNCHANGED <<ddVars, swVars, anVars, env, nextId, open, msgs, activeSessions, db, errs, reply, crashed>>

\* the awaited probe of session s settles with outcome o and executePing runs on
ProbeComplete(s, o) ==
  /\ ~crashed
  /\ sess[s].ps.inflight # <<>>
  /\ o \in env.rare => sess[s].ps.rare < env.maxRare
  /\ LET a == sess[s]
         p0 == [a.ps EXCEPT !.inflight = Tail(@),
                            !.rare = IF o \in env.rare THEN @ + 1 ELSE @]
         result == [timestamp |-> Head(a.ps.inflight).timestamp,
                    latency |-> o.latency, seq |-> a.ps.seq]
         p1 == [UpdateRollingWindow(p0, o.latency) EXCEPT
                  !.done = LastTwo(Append(@, o.latency)),
                  !.prevDeltas = p0.deltas,
                  !.successes = IF IsNone(o.latency) THEN @ ELSE Append(@, Val(o.latency)),
                  !.history = Append(@, o.latency)]
         stats == CalculateStats(p1.latencies, p1.deltas)
         on == OnPing([a EXCEPT !.ps = p1], result, stats)
     IN  IF o.ok /\ a.ps.callback
         THEN /\ sess' = [sess EXCEPT ![s] =
                            [on.a EXCEPT !.ps = ScheduleNextPing(@, now)]]
              /\ db' = IF on.save # <<>> THEN SavePingResults(db, s, on.save) ELSE db
              /\ UNCHANGED errs
         ELSE IF o.ok
         THEN \* callback is null: onPing and then onError throw a TypeError
              /\ sess' = [sess EXCEPT ![s].ps = [p1 EXCEPT !.rejections = @ + 1]]
              /\ UNCHANGED <<db, errs>>
         ELSE IF a.ps.callback
         THEN \* the probe threw: onError, then the next ping is scheduled
              /\ sess' = [sess EXCEPT ![s].ps = ScheduleNextPing(p0, now)]
              /\ errs' = [errs EXCEPT ![a.conn] = @ + 1]
              /\ UNCHANGED db
         ELSE /\ sess' = [sess EXCEPT ![s].ps = [p0 EXCEPT !.rejections = @ + 1]]
              /\ UNCHANGED <<db, errs>>
  /\ UNCHANGED <<ddVars, swVars, anVars, env, now, nextId, open, msgs, activeSessions, reply, crashed>>

(***************************************************************************)
(* The analysis routes (routes/sessions.ts).                               *)
(***************************************************************************)
\* the analysis computed for the response, saved as the cached one
Computed(analysis) == [analysis |-> {analysis}, d |-> SaveSessionAnalysis(db, analysis)]

\* the cached analysis, or one computed now and saved
CachedOrComputed(id) ==
  LET cached == GetSessionAnalysis(db, id)
      pingResults == GetPingResults(db, id)
  IN  IF cached # {} THEN [analysis |-> cached, d |-> db]
      ELSE IF Len(pingResults) > 0
           THEN Computed(ComputeSessionAnalysis(id, pingResults, now))
           ELSE [analysis |-> {}, d |-> db]

\* ?live=true: the analysis computed now and not saved
LiveAnalysis(id) ==
  LET pingResults == GetPingResults(db, id)
  IN  [analysis |-> IF Len(pingResults) > 0
                    THEN {ComputeSessionAnalysis(id, pingResults, now)}
                    ELSE {},
       d |-> db]

\* GET /api/sessions/:id/analysis, with ?live=true when isLive
GetAnalysis(id, isLive) ==
  /\ ~crashed
  /\ env.http
  /\ HasSession(db, id)
  /\ \E r \in {IF isLive THEN LiveAnalysis(id) ELSE CachedOrComputed(id)} :
         /\ db' = r.d
         /\ reply' = IF r.analysis = {} THEN [status |-> 404]
                     ELSE [status |-> 200, route |-> "analysis"]
  /\ UNCHANGED <<ddVars, swVars, anVars, env, now, nextId, open, msgs, activeSessions, sess, errs, crashed>>

\* GET /api/sessions/:id/export/analysis
ExportAnalysis(id) ==
  /\ ~crashed
  /\ env.http
  /\ HasSession(db, id)
  /\ \E r \in {CachedOrComputed(id)} :
         /\ db' = r.d
         /\ reply' = IF r.analysis = {} THEN [status |-> 404]
                     ELSE [status |-> 200, route |-> "export"]
  /\ UNCHANGED <<ddVars, swVars, anVars, env, now, nextId, open, msgs, activeSessions, sess, errs, crashed>>

(***************************************************************************)
(* Specifications of the server.                                           *)
(***************************************************************************)
SessionIds == 1..nextId

Loss == [ok |-> TRUE, latency |-> None]
Reply(ms) == [ok |-> TRUE, latency |-> Some(ms)]
ProbeError == [ok |-> FALSE, latency |-> None]

InitIdleDetector ==
  /\ dd = NewDetector(BaseSettings)
  /\ ddCall = [op |-> "new"]
  /\ ddOut = <<>>
  /\ ddIds = {}
  /\ ddEpochIds = {}
  /\ ddSeen = None
  /\ ddCalls = 0

InitIdleStats ==
  /\ sw = <<>>
  /\ swStats = None
  /\ anArgs = <<>>
  /\ anOut = <<>>

\* one connection: every message, the probes and the analysis routes
SysEnv ==
  [conns |-> {"c1"}, maxSessions |-> MaxSessions, maxPings |-> MaxPings,
   maxMsgs |-> MaxMessages, http |-> TRUE,
   outcomes |-> {Loss, Reply(20), ProbeError}, rare |-> {}, maxRare |-> 0,
   advance |-> {1},
   settings |-> {[target |-> "host", rollingWindowSize |-> 1], [target |-> " "]},
   partials |-> {[detectionMethod |-> "manual"]}]

Init == InitIdleDetector /\ InitIdleStats /\ InitSystem(SysEnv)

Next ==
  \/ \E c \in env.conns : \E settings \in env.settings : StartSession(c, settings)
  \/ \E c \in env.conns : StopSessionMsg(c)
  \/ \E c \in env.conns : \E partial \in env.partials : UpdateSettingsMsg(c, partial)
  \/ \E c \in env.conns : Close(c)
  \/ \E s \in SessionIds : TimerFire(s)
  \/ \E s \in SessionIds : \E o \in env.outcomes : ProbeComplete(s, o)
  \/ \E s \in SessionIds : \E isLive \in BOOLEAN : GetAnalysis(s, isLive)
  \/ \E s \in SessionIds : ExportAnalysis(s)

Spec == Init /\ [][Next]_vars

\* two connections with one session each, whose timers may fire in the same
\* millisecond
TwoEnv ==
  [conns |-> {"c1", "c2"}, maxSessions |-> MaxSessions, maxPings |-> TwoMaxPings,
   maxMsgs |-> TwoMaxMessages, http |-> FALSE,
   outcomes |-> {Loss, Reply(20)}, rare |-> {}, maxRare |-> 0,
   advance |-> {0, 1},
   settings |-> {[target |-> "host", rollingWindowSize |-> 1]},
   partials |-> {}]

InitTwo == InitIdleDetector /\ InitIdleStats /\ InitSystem(TwoEnv)

NextTwo ==
  \/ \E c \in env.conns : \E settings \in env.settings : StartSession(c, settings)
  \/ \E c \in env.conns : StopSessionMsg(c)
  \/ \E c \in env.conns : Close(c)
  \/ \E s \in SessionIds : TimerFire(s)
  \/ \E s \in SessionIds : \E o \in env.outcomes : ProbeComplete(s, o)

SpecTwo == InitTwo /\ [][NextTwo]_vars

\* one session on one connection with a small rolling window: the probes, their
\* outcomes, a settings update and the stop
PingEnv ==
  [conns |-> {"c1"}, maxSessions |-> 1, maxPings |-> PingMaxPings,
   maxMsgs |-> PingMaxMessages, http |-> FALSE,
   outcomes |-> {Loss, Reply(10), Reply(30), Reply(20), ProbeError},
   rare |-> {Reply(20), ProbeError},
   maxRare |-> PingMaxRare,
   advance |-> {1},
   settings |-> {[target |-> "host", rollingWindowSize |-> w] : w \in 1..PingMaxWindow},
   partials |-> {[manualJitterThreshold |-> Some(<<5, 1>>)],
                 [target |-> "other", interval |-> 50, rollingWindowSize |-> 1]}]

InitPing == InitIdleDetector /\ InitIdleStats /\ InitSystem(PingEnv)

NextPing ==
  \/ \E c \in env.conns : \E settings \in env.settings : StartSession(c, settings)
  \/ \E c \in env.conns : StopSessionMsg(c)
  \/ \E c \in env.conns : \E partial \in env.partials : UpdateSettingsMsg(c, partial)
  \/ \E s \in SessionIds : TimerFire(s)
  \/ \E s \in SessionIds : \E o \in env.outcomes : ProbeComplete(s, o)

SpecPing == InitPing /\ [][NextPing]_vars

\* one session whose rolling window is as wide as the warm-up count, so that the
\* detector gets past its warm-up gate, or one entry narrower, with the default
\* method or with manual thresholds that a 30 ms reply after a 10 ms one exceeds;
\* losses and 30 ms replies are rare
WarmEnv ==
  [conns |-> {"c1"}, maxSessions |-> 1, maxPings |-> WarmMaxPings,
   maxMsgs |-> 1, http |-> FALSE,
   outcomes |-> {Loss, Reply(10), Reply(30)}, rare |-> {Loss, Reply(30)},
   maxRare |-> WarmMaxRare,
   advance |-> {1},
   settings |-> {[target |-> "host", rollingWindowSize |-> minSamples],
                 [target |-> "host", rollingWindowSize |-> minSamples - 1],
                 [target |-> "host", rollingWindowSize |-> minSamples - 1,
                  detectionMethod |-> "manual",
                  manualLatencyThreshold |-> Some(<<15, 1>>),
                  manualJitterThreshold |-> Some(<<5, 1>>)]},
   partials |-> {}]

InitWarm == InitIdleDetector /\ InitIdleStats /\ InitSystem(WarmEnv)

NextWarm ==
  \/ \E c \in env.conns : \E settings \in env.settings : StartSession(c, settings)
  \/ \E s \in SessionIds : TimerFire(s)
  \/ \E s \in SessionIds : \E o \in env.outcomes : ProbeComplete(s, o)

SpecWarm == InitWarm /\ [][NextWarm]_vars

(***************************************************************************)
(* The rolling window on its own: one started PingService whose probes     *)
(* settle one after the other with any outcome; after each the window is   *)
(* updated and calculateStats is applied to it (executePing, the lines     *)
(* between the await and the callback).                                    *)
(***************************************************************************)
StatValues == {10, 20, 30, 40, 50}

StatLatencies == {None} \cup {Some(v) : v \in StatValues}

StatSettings ==
  Spread(DEFAULT_SESSION_SETTINGS, [target |-> "host", rollingWindowSize |-> StatMaxLen])

InitStats ==
  /\ InitIdleDetector
  /\ InitSystem(NoEnv)
  /\ sw = PsStart(NewPingService(StatSettings), 0)
  /\ swStats = None
  /\ anArgs = <<>>
  /\ anOut = <<>>

ExecutePingStats(latency) ==
  /\ sw.seq < StatMaxLen
  /\ LET p0 == [sw EXCEPT !.seq = @ + 1]
         p1 == [UpdateRollingWindow(p0, latency) EXCEPT
                  !.done = LastTwo(Append(@, latency)),
                  !.prevDeltas = p0.deltas,
                  !.successes = IF IsNone(latency) THEN @ ELSE Append(@, Val(latency)),
                  !.history = Append(@, latency)]
     IN  /\ sw' = p1
         /\ swStats' = Some(CalculateStats(p1.latencies, p1.deltas))
  /\ UNCHANGED <<ddVars, sysVars, anVars>>

NextStats == \E latency \in StatLatencies : ExecutePingStats(latency)

SpecStats == InitStats /\ [][NextStats]_vars

(***************************************************************************)
(* Claims about the rolling window, the probes and the statistics.         *)
(***************************************************************************)
LastN(s, n) == SubSeq(s, Len(s) - n + 1, Len(s))

HasType(events, type) == \E i \in 1..Len(events) : events[i].type = type

\* C3: jitter is never computed across a loss.  In the rolling window, the delta
\* buffer after a completed probe is the buffer before it, with one delta added
\* exactly when this probe and the one before it both succeeded, that delta being
\* the distance between their two latencies; the first success after a loss adds
\* none.  In the detector, the first success after a loss yields no jitter event,
\* and every jitter event comes from two successive successes and carries the
\* distance between their latencies.
C3_NoJitterAcrossLoss ==
  \A s \in SessionIds :
    LET p == sess[s].ps
        w == p.settings.rollingWindowSize
        n == Len(p.done)
        got == sess[s].delivered
        m == Len(got)
    IN  /\ n >= 1 =>
             p.deltas =
               IF IsNone(p.done[n]) THEN p.prevDeltas
               ELSE IF n = 2 /\ ~IsNone(p.done[1])
               THEN Trim(Append(p.prevDeltas, Abs(Val(p.done[2]) - Val(p.done[1]))), w)
               ELSE p.prevDeltas
        /\ (m >= 1 /\ ~IsNone(got[m].latency) /\ (m = 2 => IsNone(got[1].latency)))
             => ~HasType(sess[s].lastEvents, "jitter")
        /\ \A i \in 1..Len(sess[s].lastEvents) :
             sess[s].lastEvents[i].type = "jitter" =>
               /\ m = 2
               /\ ~IsNone(got[1].latency)
               /\ ~IsNone(got[2].latency)
               /\ sess[s].lastEvents[i].value
                    = FromInt(Abs(Val(got[2].latency) - Val(got[1].latency)))

\* a session past the detector's warm-up whose last sample is a 30 ms reply that
\* follows a loss, itself preceded by a 10 ms reply: the 20 ms distance between the
\* two replies would exceed the jitter threshold, and no jitter event was raised nor
\* a delta added
C3_Witness ==
  \E s \in SessionIds :
    LET p == sess[s].ps
        got == sess[s].delivered
        n == Len(p.latencies)
    IN  /\ n >= minSamples
        /\ Len(got) = 2
        /\ IsNone(got[1].latency)
        /\ got[2].latency = Some(30)
        /\ p.latencies[n - 1] = 10
        /\ p.deltas = p.prevDeltas
        /\ ~HasType(sess[s].lastEvents, "jitter")
        /\ HasType(sess[s].deviationEvents, "packet_loss")

\* C4: the rolling window of a service with rollingWindowSize w holds the last
\* min(k, w) of the k latencies measured since start, in arrival order; neither it
\* nor the delta buffer is longer than w; after a loss the delta buffer is what it
\* was before and lastLatency is none (the window, a function of the measured
\* latencies alone, is what it was before too).
C4_WindowHoldsLastSuccesses ==
  \A s \in SessionIds :
    LET p == sess[s].ps
        w == p.settings.rollingWindowSize
        k == Len(p.successes)
        n == Len(p.done)
    IN  /\ p.latencies = LastN(p.successes, MinI(k, w))
        /\ CalculateStats(p.latencies, p.deltas).sampleCount = MinI(k, w)
        /\ Len(p.latencies) <= w
        /\ Len(p.deltas) <= w
        /\ (n >= 1 /\ IsNone(p.done[n])) =>
             /\ p.deltas = p.prevDeltas
             /\ IsNone(p.lastLatency)

\* a window of size 2 or more that has evicted a latency, then seen a loss
C4_Witness ==
  \E s \in SessionIds :
    LET p == sess[s].ps
    IN  /\ p.settings.rollingWindowSize >= 2
        /\ Len(p.successes) > p.settings.rollingWindowSize
        /\ Len(p.done) = 2
        /\ IsNone(p.done[2])
        /\ Len(p.latencies) = p.settings.rollingWindowSize
        /\ p.deltas # <<>>

\* C9: the probes of a service are serial: at any time at most one probe is
\* scheduled (a pending timer) or in flight (an awaited probe), and two successive
\* calls of onPing carry strictly increasing seq and non-decreasing timestamps.
C9_ProbesSerialAndOrdered ==
  \A s \in SessionIds :
    LET p == sess[s].ps
        got == sess[s].delivered
    IN  /\ p.timers + Len(p.inflight) <= 1
        /\ Len(got) = 2 =>
             /\ got[1].seq < got[2].seq
             /\ got[1].timestamp <= got[2].timestamp
        /\ \A i \in 1..Len(got) : got[i].seq >= 1 /\ got[i].seq <= p.seq

\* two results were delivered, a third probe is in flight and no timer is pending
C9_Witness ==
  \E s \in SessionIds :
    /\ Len(sess[s].delivered) = 2
    /\ sess[s].delivered[2].seq = 2
    /\ Len(sess[s].ps.inflight) = 1
    /\ sess[s].ps.timers = 0
    /\ sess[s].ps.seq = 3

C6_SavedEventIdsNeverCollide == db.failed = {}

\* C8: an analysis computed while its session is still running is never written to
\* storage: every row of session_analysis belongs to a session whose ping service
\* has been stopped.
C8_NoAnalysisSavedWhileRunning ==
  \A r \in db.session_analysis : ~sess[r.sessionId].ps.isRunning

(***************************************************************************)
(* Claims about the values calculateStats selects.                         *)
(***************************************************************************)
\* the number of entries of w below x, and of those not above x
CountBelow(w, x) == Cardinality({i \in 1..Len(w) : w[i] < x})

CountUpTo(w, x) == Cardinality({i \in 1..Len(w) : w[i] <= x})

\* the entry of w that has rank k (counted from 0) in ascending order
Ranked(w, k) ==
  CHOOSE x \in {w[i] : i \in 1..Len(w)} : CountBelow(w, x) <= k /\ k < CountUpTo(w, x)

Undefined == "undefined"

OneMethods == {"iqr", "zscore", "manual", "bogus", Undefined}

OneSettings ==
  { [BaseSettings EXCEPT !.detectionMethod = m, !.iqrMultiplier = q,
                         !.zScoreThreshold = z, !.manualLatencyThreshold = t,
                         !.manualJitterThreshold = j] :
      m \in OneMethods,
      q \in {<<3, 2>>, Zero},
      z \in {<<2, 1>>, <<1, 1>>},
      t \in {None, Some(<<15, 1>>)},
      j \in {None, Some(<<5, 1>>)} }

\* detectors a session can hold: lastLatency is null or the latency of the sample
\* before
OneDetectors ==
  { [NewDetector(st) EXCEPT !.lastLatency = l] :
      st \in OneSettings, l \in {None, Some(10), Some(14)} }

\* statistics of a window below the warm-up count, of a flat window, and of
\* windows with spread
OneStats ==
  { CalculateStats(Rep(9, 10), Rep(8, 0)),
    CalculateStats(Rep(10, 10), Rep(9, 0)),
    CalculateStats(Rep(5, 10) \o Rep(5, 12), <<0, 2, 0, 2>>),
    CalculateStats(Rep(8, 10) \o Rep(2, 30), <<0, 20, 20, 0>>),
    CalculateStats(Rep(3, 10) \o Rep(4, 20) \o Rep(3, 30), <<10, 10>>) }

OneResults ==
  { [timestamp |-> 0, latency |-> l, seq |-> 1] :
      l \in {None} \cup {Some(v) : v \in {10, 11, 12, 13, 15, 16, 20, 30, 40, 61}} }

InitOne ==
  /\ dd \in OneDetectors
  /\ ddCall = [op |-> "new"]
  /\ ddOut = <<>>
  /\ ddIds = {}
  /\ ddEpochIds = {}
  /\ ddSeen = None
  /\ ddCalls = 0
  /\ InitIdleStats
  /\ InitSystem(NoEnv)

DetectOne ==
  /\ ddCall.op = "new"
  /\ \E result \in OneResults, stats \in OneStats :
       LET r == Detect(dd, result, stats)
       IN  /\ dd' = r.d
           /\ ddOut' = r.events
           /\ ddCall' = [op |-> "detect", result |-> result, stats |-> stats, before |-> dd]
           /\ ddSeen' = result.latency
           /\ ddIds' = Ids(r.events)
           /\ ddEpochIds' = Ids(r.events)
  /\ ddCalls' = ddCalls + 1
  /\ UNCHANGED <<sysVars, swVars, anVars>>

NextOne == DetectOne

SpecOne == InitOne /\ [][NextOne]_vars

(***************************************************************************)
(* Claims about one detect() call (SpecOne).                               *)
(***************************************************************************)
\* detect() was called on a successful sample with the window past the warm-up
WarmCalled == SuccessCalled /\ ddCall.stats.sampleCount >= 10

MethodCalled(m) == WarmCalled /\ ddCall.before.settings.detectionMethod = m

Spikes == { i \in 1..Len(ddOut) : ddOut[i].type = "latency_spike" }

Jitters == { i \in 1..Len(ddOut) : ddOut[i].type = "jitter" }

CalledLatency == FromInt(Val(ddCall.result.latency))

\* max(q3 + iqrMultiplier * iqr, median + 1) of the call
IqrThreshold ==
  LET st == ddCall.stats
      a == RAdd(FromInt(st.q3), RMul(ddCall.before.settings.iqrMultiplier, FromInt(st.iqr)))
      b == RAdd(st.median, FromInt(1))
  IN  IF RLt(a, b) THEN b ELSE a

\* C12: under the iqr method and past the warm-up, detect() returns a
\* latency_spike event exactly when latency > max(q3 + iqrMultiplier*iqr,
\* median + 1); there is at most one, its threshold is that maximum and its value
\* the latency.
C12_IqrSpikeIff ==
  MethodCalled("iqr") =>
    /\ (Spikes # {}) <=> RLt(IqrThreshold, CalledLatency)
    /\ Cardinality(Spikes) <= 1
    /\ \A i \in Spikes :
         /\ ddOut[i].threshold = Thr(IqrThreshold)
         /\ ddOut[i].value = CalledLatency

\* a flat window (iqr 0, q3 = median = 10) and a latency of 12: the threshold is
\* the floor median + 1 = 11, above q3 + 1.5*iqr = 10, and the spike is reported
C12_Witness ==
  /\ MethodCalled("iqr")
  /\ ddCall.stats.iqr = 0
  /\ ddCall.stats.q3 = 10
  /\ ddCall.result.latency = Some(12)
  /\ Spikes # {}
  /\ \A i \in Spikes : ddOut[i].threshold = Thr(FromInt(11))

\* the jitter threshold of the call: manualJitterThreshold if set, otherwise
\* max(2 * stats.jitter, 2)
JitterThreshold ==
  LET m == ddCall.before.settings.manualJitterThreshold
      auto == RMul(FromInt(2), ddCall.stats.jitter)
  IN  IF ~IsNone(m) THEN Val(m)
      ELSE IF RLt(auto, FromInt(2)) THEN FromInt(2) ELSE auto

\* |latency - lastLatency|, lastLatency being the detector's before the call
CalledDelta == FromInt(Abs(Val(ddCall.result.latency) - Val(ddCall.before.lastLatency)))

\* the jitter check of the call fires
JitterExpected ==
  /\ ~IsNone(ddCall.before.lastLatency)
  /\ RLt(JitterThreshold, CalledDelta)

\* (latency - mean) / stdDev > zScoreThreshold for stdDev > 0 and a threshold >= 0:
\* the latency is above the mean and the squared distance above
\* zScoreThreshold^2 * variance
ZExpected ==
  LET st == ddCall.stats
      z == ddCall.before.settings.zScoreThreshold
      diff == RSub(CalledLatency, st.mean)
  IN  /\ RLt(Zero, diff)
      /\ RLt(RMul(RMul(z, z), st.variance), RMul(diff, diff))

\* C13: under the zscore method and past the warm-up, detect() returns no
\* latency_spike when stdDev is 0; otherwise it returns one exactly when
\* (latency - mean)/stdDev > zScoreThreshold, with threshold mean +
\* zScoreThreshold*stdDev and value the latency; with stdDev 0 the jitter check
\* still runs and reports what it reports otherwise.
C13_ZScoreSpikeIff ==
  MethodCalled("zscore") =>
    /\ ddCall.stats.variance = Zero => Spikes = {}
    /\ ddCall.stats.variance # Zero => ((Spikes # {}) <=> ZExpected)
    /\ Cardinality(Spikes) <= 1
    /\ \A i \in Spikes :
         /\ ddOut[i].threshold = [base |-> ddCall.stats.mean,
                                  k |-> ddCall.before.settings.zScoreThreshold,
                                  var |-> ddCall.stats.variance]
         /\ ddOut[i].value = CalledLatency
    /\ (Jitters # {}) <=> JitterExpected
    /\ dd.lastLatency = ddCall.result.latency

\* a flat window (stdDev 0) and a latency of 40 after a latency of 10: no
\* latency_spike, and the jitter event of the 30 ms step
C13_Witness ==
  /\ MethodCalled("zscore")
  /\ ddCall.stats.variance = Zero
  /\ ddCall.result.latency = Some(40)
  /\ ddCall.before.lastLatency = Some(10)
  /\ Spikes = {}
  /\ Len(ddOut) = 1
  /\ ddOut[1].type = "jitter"
  /\ ddOut[1].value = FromInt(30)

\* C14: under the manual method and past the warm-up, detect() returns a
\* latency_spike exactly when manualLatencyThreshold is set and latency exceeds
\* it, with value the latency and threshold manualLatencyThreshold; with the
\* threshold unset it never returns one.
C14_ManualSpikeIff ==
  MethodCalled("manual") =>
    LET t == ddCall.before.settings.manualLatencyThreshold
    IN  /\ (Spikes # {}) <=> (~IsNone(t) /\ RLt(Val(t), CalledLatency))
        /\ IsNone(t) => Spikes = {}
        /\ Cardinality(Spikes) <= 1
        /\ \A i \in Spikes :
             /\ ddOut[i].value = CalledLatency
             /\ ddOut[i].threshold = Thr(Val(t))

\* latency 20 against the threshold 15: value 20, threshold 15
C14_Witness ==
  /\ MethodCalled("manual")
  /\ ddCall.before.settings.manualLatencyThreshold = Some(FromInt(15))
  /\ ddCall.result.latency = Some(20)
  /\ Spikes # {}
  /\ \A i \in Spikes : ddOut[i].value = FromInt(20) /\ ddOut[i].threshold = Thr(FromInt(15))

\* C15: past the warm-up, whatever the detection method and whether or not a
\* latency_spike is returned for the sample, detect() returns a jitter event
\* exactly when the detector held a previous latency and |latency - lastLatency|
\* exceeds T = manualJitterThreshold if set, max(2*stats.jitter, 2) otherwise; the
\* event's value is that delta, taken against lastLatency as it was before the
\* call, and its threshold is T.
C15_JitterIff ==
  WarmCalled =>
    /\ (Jitters # {}) <=> JitterExpected
    /\ Cardinality(Jitters) <= 1
    /\ \A i \in Jitters :
         /\ ddOut[i].value = CalledDelta
         /\ ddOut[i].threshold = Thr(JitterThreshold)
         /\ \A k \in Spikes : k < i

\* a sample that is both a latency spike and a jitter spike under the automatic
\* threshold 2 * stats.jitter = 20: latency 40 after 10
C15_Witness ==
  /\ WarmCalled
  /\ IsNone(ddCall.before.settings.manualJitterThreshold)
  /\ ddCall.stats.jitter = FromInt(10)
  /\ ddCall.before.lastLatency = Some(10)
  /\ ddCall.result.latency = Some(40)
  /\ Spikes # {}
  /\ \E i \in Jitters : ddOut[i].value = FromInt(30) /\ ddOut[i].threshold = Thr(FromInt(20))

\* the call with its detector's method replaced by manual and no manual latency
\* threshold: a valid configuration under which no latency_spike is possible
ValidTwin ==
  Detect([ddCall.before EXCEPT !.settings.detectionMethod = "manual",
                               !.settings.manualLatencyThreshold = None],
         ddCall.result, ddCall.stats)

\* C16: with a detectionMethod outside {iqr, zscore, manual}, missing included,
\* detect() returns no latency_spike, and its events (the packet_loss of a lost
\* sample, the jitter event of a step), the counter and lastLatency after the call
\* are those of the same call under a valid method that reports no latency spike.
C16_UnknownMethodDegrades ==
  (DetectCalled /\ ddCall.before.settings.detectionMethod \notin {"iqr", "zscore", "manual"}) =>
    /\ Spikes = {}
    /\ ddOut = ValidTwin.events
    /\ dd.lastLatency = ValidTwin.d.lastLatency
    /\ dd.deviationCount = ValidTwin.d.deviationCount
    /\ dd.settings = ddCall.before.settings
    /\ LossCalled => (Len(ddOut) = 1 /\ ddOut[1].type = "packet_loss")
    /\ WarmCalled => ((Jitters # {}) <=> JitterExpected)

\* detectionMethod undefined, a spread window whose iqr threshold is 60, a latency
\* of 61 after 10: only the jitter event is returned
C16_Witness ==
  /\ WarmCalled
  /\ ddCall.before.settings.detectionMethod = Undefined
  /\ ddCall.stats.q3 = 30
  /\ ddCall.stats.iqr = 20
  /\ ddCall.result.latency = Some(61)
  /\ ddCall.before.lastLatency = Some(10)
  /\ Len(ddOut) = 1
  /\ ddOut[1].type = "jitter"

(***************************************************************************)
(* assessQuality on its own: the percentages of a history of 200 latencies *)
(* (or of none), its P95 and its sample count, losses included.            *)
(***************************************************************************)
\* numbers of latencies, out of 200, at or above 10 ms and at or above 20 ms
QualCounts10 == {0, 1, 2, 5, 6, 9, 10, 19, 20, 21}

QualCounts20 == {0, 1, 2, 5, 6, 7}

\* counts at or above 10, 20 and 50 ms: each level's count is within the one below
QualTriples ==
  { c \in QualCounts10 \X QualCounts20 \X {0, 1} : c[2] <= c[1] /\ c[3] <= c[2] }

QualArgs ==
  { [latencyStats |-> [latencyP95 |-> p95],
     thresholds |-> <<ThresholdCount(10, c[1], 200), ThresholdCount(20, c[2], 200),
                      ThresholdCount(50, c[3], 200), ThresholdCount(100, 0, 200)>>,
     sampleCount |-> 200 + lost] :
      c \in QualTriples, p95 \in {0, 8, 10, 25}, lost \in {0, 1} }
  \cup
  { [latencyStats |-> ComputeLatencyStats(<<>>),
     thresholds |-> ComputeThresholdCounts(<<>>),
     sampleCount |-> lost] : lost \in {0, 1} }

InitQuality ==
  /\ InitIdleDetector
  /\ sw = <<>>
  /\ swStats = None
  /\ anArgs \in QualArgs
  /\ anOut = <<>>
  /\ InitSystem(NoEnv)

CallAssessQuality ==
  /\ anOut = <<>>
  /\ anOut' = <<AssessQuality(anArgs.latencyStats, anArgs.thresholds, anArgs.sampleCount)>>
  /\ UNCHANGED <<anArgs, ddVars, swVars, sysVars>>

NextQuality == CallAssessQuality

SpecQuality == InitQuality /\ [][NextQuality]_vars

(***************************************************************************)
(* Claims about assessQuality (SpecQuality).                               *)
(***************************************************************************)
Pct(level) ==
  LET hit == {k \in 1..Len(anArgs.thresholds) : anArgs.thresholds[k].thresholdMs = level}
  IN  anArgs.thresholds[CHOOSE k \in hit : TRUE].percentage

Below(x, bound) == RLt(x, FromInt(bound))

RuleA == Below(Pct(10), 1) /\ anArgs.latencyStats.latencyP95 < 10

RuleB == Below(Pct(10), 3) /\ Below(Pct(20), 1)

RuleC == Below(Pct(10), 5) \/ (Below(Pct(20), 1) /\ Below(Pct(10), 10))

RuleD == Below(Pct(10), 10) \/ Below(Pct(20), 3)

AnTimes == <<0, 4000, 5000, 10000, 10001, 16000>>

\* what the history holds at a time: nothing, a loss, a 5 ms or a 15 ms reply
AnChoices == {"absent", "loss", "fast", "slow"}

AnLatency == [loss |-> None, fast |-> Some(5), slow |-> Some(15)]

RECURSIVE AnHistory(_, _, _)
\* the samples chosen by f at the times from index i on, numbered from seq
AnHistory(f, i, seq) ==
  IF i > Len(AnTimes) THEN <<>>
  ELSE IF f[i] = "absent" THEN AnHistory(f, i + 1, seq)
  ELSE <<[timestamp |-> AnTimes[i], latency |-> AnLatency[f[i]], seq |-> seq]>>
         \o AnHistory(f, i + 1, seq + 1)

AnHistories ==
  { AnHistory(f, 1, 1) :
      f \in { g \in [1..Len(AnTimes) -> AnChoices] :
                Cardinality({i \in 1..Len(AnTimes) : g[i] # "absent"}) <= AnMaxLen } }

InitAnalysis ==
  /\ InitIdleDetector
  /\ sw = <<>>
  /\ swStats = None
  /\ anArgs \in { [sessionId |-> "s1", pingResults |-> h, clock |-> 20000] : h \in AnHistories }
  /\ anOut = <<>>
  /\ InitSystem(NoEnv)

\* one call; Date.now() is the clock, which has advanced by d since the last call
CallComputeSessionAnalysis ==
  /\ Len(anOut) < AnMaxCalls
  /\ \E d \in {0, 1} :
       /\ anArgs' = [anArgs EXCEPT !.clock = @ + d]
       /\ anOut' = Append(anOut, ComputeSessionAnalysis(anArgs.sessionId, anArgs.pingResults,
                                                        anArgs.clock + d))
  /\ UNCHANGED <<ddVars, swVars, sysVars>>

NextAnalysis == CallComputeSessionAnalysis

SpecAnalysis == InitAnalysis /\ [][NextAnalysis]_vars

(***************************************************************************)
(* Claims about computeSessionAnalysis (SpecAnalysis).                     *)
(***************************************************************************)
\* the positions in the history of its spike samples: a loss, or a latency of
\* 10 ms or more
SpikePositions ==
  { i \in 1..Len(anArgs.pingResults) :
      \/ IsNone(anArgs.pingResults[i].latency)
      \/ Val(anArgs.pingResults[i].latency) >= 10 }

\* the p-th spike sample in timestamp order
SpikeNo(p) ==
  anArgs.pingResults[CHOOSE i \in SpikePositions :
                       Cardinality({j \in SpikePositions : j < i}) = p - 1]

\* the sampleCounts of the first j bursts of b, summed
RECURSIVE SumCounts(_, _)
SumCounts(b, j) == IF j = 0 THEN 0 ELSE b[j].sampleCount + SumCounts(b, j - 1)

\* C18: the bursts partition the spike samples, in timestamp order, into maximal
\* runs: burst number j (index j - 1) holds the spikes after those of the bursts
\* before it, any two adjacent spikes inside it are at most 5000 ms apart, the
\* first spike of a burst is more than 5000 ms after the last spike of the burst
\* before, samples that are no spikes play no part, burstCount is the number of
\* runs and the sampleCounts sum to the number of spike samples.
C18_BurstsAreMaximalRuns ==
  \A c \in 1..Len(anOut) :
    LET b == anOut[c].bursts
        k == Cardinality(SpikePositions)
    IN  /\ anOut[c].burstCount = Len(b)
        /\ (k = 0) <=> (Len(b) = 0)
        /\ SumCounts(b, Len(b)) = k
        /\ k > 0 => Len(b) = 1 + Cardinality({p \in 2..k :
                                   SpikeNo(p).timestamp - SpikeNo(p - 1).timestamp > 5000})
        /\ \A j \in 1..Len(b) :
             LET first == SumCounts(b, j - 1) + 1
                 last == SumCounts(b, j)
             IN  /\ b[j].index = j - 1
                 /\ b[j].sampleCount >= 1
                 /\ b[j].startTimestamp = SpikeNo(first).timestamp
                 /\ b[j].endTimestamp = SpikeNo(last).timestamp
                 /\ \A p \in (first + 1)..last :
                      SpikeNo(p).timestamp - SpikeNo(p - 1).timestamp <= 5000
                 /\ j > 1 => SpikeNo(first).timestamp - SpikeNo(first - 1).timestamp > 5000

\* spikes at 0, 4000 and 10000 with a 5 ms reply at 5000 between them: two bursts,
\* of sizes 2 and 1
C18_Witness ==
  /\ Len(anOut) >= 1
  /\ anArgs.pingResults =
       <<[timestamp |-> 0, latency |-> None, seq |-> 1],
         [timestamp |-> 4000, latency |-> Some(15), seq |-> 2],
         [timestamp |-> 5000, latency |-> Some(5), seq |-> 3],
         [timestamp |-> 10000, latency |-> Some(15), seq |-> 4]>>
  /\ anOut[1].burstCount = 2
  /\ anOut[1].bursts[1].sampleCount = 2
  /\ anOut[1].bursts[2].sampleCount = 1
  /\ anOut[1].bursts[2].index = 1

SuccessesUpTo(h, i) == Cardinality({j \in 1..i : ~IsNone(h[j])})

\* the positions i of the history of p such that the samples i and i + 1 are both
\* successful (no loss between them) and both still in the window
WindowPairs(p) ==
  { i \in 1..(Len(p.history) - 1) :
      /\ ~IsNone(p.history[i])
      /\ ~IsNone(p.history[i + 1])
      /\ SuccessesUpTo(p.history, i) > Len(p.successes) - Len(p.latencies) }

RECURSIVE SumPairDeltas(_, _)
SumPairDeltas(h, pairs) ==
  IF pairs = {} THEN 0
  ELSE LET i == CHOOSE x \in pairs : TRUE
       IN  Abs(Val(h[i + 1]) - Val(h[i])) + SumPairDeltas(h, pairs \ {i})

\* C20: the jitter of the rolling statistics is the mean of |delta latency| over
\* exactly the pairs of consecutive successful samples, with no loss between
\* them, that both lie in the current window, and 0 when there is no such pair.
C20_JitterOverWindowPairs ==
  \A s \in SessionIds :
    LET p == sess[s].ps
        pairs == WindowPairs(p)
    IN  CalculateStats(p.latencies, p.deltas).jitter =
          IF pairs = {} THEN Zero
          ELSE Norm(SumPairDeltas(p.history, pairs), Cardinality(pairs))

(***************************************************************************)
(* Claims about the latency distribution of the analysis.                  *)
(***************************************************************************)
\* the successful latencies of the analysed history
AnalysedLatencies == LatenciesOf(anArgs.pingResults)

\* C21: latencyMedian of a SessionAnalysis is, for every n >= 1 successful
\* latencies, the element at index floor(n/2) of the ascending-sorted list, with
\* no interpolation between adjacent ranks.
C21_MedianIsRankFloor ==
  \A k \in 1..Len(anOut) :
    LET w == AnalysedLatencies
        n == Len(w)
    IN  n >= 1 => anOut[k].latencyMedian = FromInt(Ranked(w, n \div 2))

\* C21 as the code has it: latencyMedian is the element at index floor(n/2) for
\* odd n, and the mean of the elements at indices n/2 - 1 and n/2 for even n.
C21_MedianOfMiddle ==
  \A k \in 1..Len(anOut) :
    LET w == AnalysedLatencies
        n == Len(w)
    IN  n >= 1 =>
          anOut[k].latencyMedian =
            IF n % 2 = 1 THEN FromInt(Ranked(w, n \div 2))
            ELSE Norm(Ranked(w, n \div 2 - 1) + Ranked(w, n \div 2), 2)

\* an analysis of a history with the two successful latencies 5 and 15: median 10
C21_Witness ==
  /\ Len(anOut) >= 1
  /\ Len(AnalysedLatencies) = 2
  /\ Ranked(AnalysedLatencies, 0) = 5
  /\ Ranked(AnalysedLatencies, 1) = 15
  /\ anOut[1].latencyMedian = FromInt(10)

(***************************************************************************)
(* computeLatencyStats on its own: a list of successful latencies, some of *)
(* 0 ms (parseFloat of the probe's time may be 0), in either order.        *)
(***************************************************************************)
LatLists ==
  LET asc(a, b, c) == Rep(a, 0) \o Rep(b, 7) \o Rep(c, 50)
      desc(a, b, c) == Rep(c, 50) \o Rep(b, 7) \o Rep(a, 0)
  IN  { asc(a, b, c) : a \in 0..LatMaxZeros, b \in 0..LatMaxOthers, c \in 0..LatMaxOthers }
      \cup
      { desc(a, b, c) : a \in 0..LatMaxZeros, b \in 0..LatMaxOthers, c \in 0..LatMaxOthers }

InitLatency ==
  /\ InitIdleDetector
  /\ sw = <<>>
  /\ swStats = None
  /\ anArgs \in { [latencies |-> l] : l \in LatLists }
  /\ anOut = <<>>
  /\ InitSystem(NoEnv)

CallComputeLatencyStats ==
  /\ anOut = <<>>
  /\ anOut' = <<ComputeLatencyStats(anArgs.latencies)>>
  /\ UNCHANGED <<anArgs, ddVars, swVars, sysVars>>

NextLatency == CallComputeLatencyStats

SpecLatency == InitLatency /\ [][NextLatency]_vars

\* C22: latencyP95 and latencyP99 are the elements at indices floor(n * 0.95) and
\* floor(n * 0.99) of the ascending-sorted latencies, for every non-empty list of
\* latencies >= 0: the fallback to the maximum is not taken when the index
\* selects an element.
C22_PercentilesAtFloorIndex ==
  (anOut # <<>> /\ Len(anArgs.latencies) >= 1) =>
    LET w == anArgs.latencies
        n == Len(w)
    IN  /\ anOut[1].latencyP95 = Ranked(w, (n * 95) \div 100)
        /\ anOut[1].latencyP99 = Ranked(w, (n * 99) \div 100)

(***************************************************************************)
(* Claims about the server's sessions.                                     *)
(***************************************************************************)
\* the awaited probe of session s settles in this step
ProbeSettles(s) == Len(sess'[s].ps.inflight) < Len(sess[s].ps.inflight)

\* C23: when a probe settles after stop() was called on its PingService,
\* executePing invokes neither onPing nor onError, its promise does not reject,
\* and no further probe is scheduled.
C23_LateProbeDroppedSilently ==
  [][\A s \in SessionIds :
       (~sess[s].ps.isRunning /\ ProbeSettles(s)) =>
         /\ sess'[s].delivered = sess[s].delivered
         /\ errs' = errs
         /\ sess'[s].ps.timers = 0
         /\ sess'[s].ps.rejections = sess[s].ps.rejections]_vars

\* C24: a start_session message whose target is empty or blank is answered with
\* an error message and leaves the connection's session state unchanged: an
\* active session of the connection keeps running and is not stopped.
C24_BlankTargetLeavesSession ==
  [][\A c \in env.conns : \A settings \in env.settings :
       (IsBlank(settings.target) /\ StartSession(c, settings)) =>
         /\ errs'[c] = errs[c] + 1
         /\ activeSessions' = activeSessions
         /\ sess' = sess
         /\ db' = db]_vars

\* the rows of session s in ping_results, in the order of their insertion
StoredSamples(s) == RowsOf(db.ping_results, s)

\* C25: every sample delivered through onPing is stored exactly once by the time
\* session_ended is sent (until then it is either stored or in the buffer,
\* exactly once), the buffer holds fewer samples than the flush batch size after
\* each onPing, and the analysis saved at stop is computed over all the samples.
C25_SamplesStoredOnce ==
  \A s \in SessionIds :
    LET a == sess[s]
    IN  /\ Len(a.pingResults) < FlushBatchSize
        /\ StoredSamples(s) \o a.pingResults = a.samples
        /\ a.endedMsgs > 0 =>
              /\ StoredSamples(s) = a.samples
              /\ a.samples # <<>> =>
                    GetSessionAnalysis(db, s) =
                      {ComputeSessionAnalysis(s, a.samples, Val(db.sessions[s].endedAt))}

\* a session ended after three samples: one batch flushed by onPing, the third
\* sample flushed at stop, the analysis saved over the three
C25_Witness ==
  \E s \in SessionIds :
    /\ sess[s].endedMsgs = 1
    /\ Len(sess[s].samples) = FlushBatchSize + 1
    /\ StoredSamples(s) = sess[s].samples
    /\ \E r \in GetSessionAnalysis(db, s) : r.sampleCount = FlushBatchSize + 1

\* the sessions of connection c whose ping service is running
RunningOn(c) == {s \in SessionIds : sess[s].conn = c /\ sess[s].ps.isRunning}

\* this step sends one session_ended for the session that is active on c, if
\* there is one, and none for any other session
EndsActiveOnce(c) ==
  \A s \in SessionIds :
    sess'[s].endedMsgs = sess[s].endedMsgs + (IF s = activeSessions[c] THEN 1 ELSE 0)

\* C26: a connection has at most one active session at any time; a start_session
\* received while a session is active stops it, sending exactly one
\* session_ended for it, before the new session is registered; after
\* stop_session or socket close the connection has no active session, and a
\* stop or close without an active session sends no session_ended.
C26_OneActiveSession ==
  [][\A c \in env.conns :
       /\ Cardinality(RunningOn(c)) <= 1
       /\ (StopSessionMsg(c) \/ Close(c)) =>
            /\ activeSessions'[c] = 0
            /\ EndsActiveOnce(c)
       /\ \A settings \in env.settings :
            StartSession(c, settings) =>
              /\ EndsActiveOnce(c)
              /\ activeSessions[c] # 0 => ~sess'[activeSessions[c]].ps.isRunning
              /\ activeSessions'[c] \in {0, nextId + 1}]_vars

\* C27: the SessionStats saved and sent at stop have latencyMin, latencyMax and
\* latencyMean computed over all the successful samples of the session, as
\* totalPings and successfulPings count the whole session, also when the
\* session has more successful samples than rollingWindowSize.
C27_FinalStatsOverSession ==
  \A s \in SessionIds :
    sess[s].endedMsgs > 0 =>
      \A r \in {x \in db.session_stats : x.sessionId = s} :
        LET w == LatenciesOf(sess[s].samples)
            n == Len(w)
        IN  /\ r.stats.totalPings = Len(sess[s].samples)
            /\ r.stats.successfulPings = n
            /\ n >= 1 =>
                  /\ r.stats.latencyMin = Ranked(w, 0)
                  /\ r.stats.latencyMax = Ranked(w, n - 1)
                  /\ r.stats.latencyMean = Norm(SumSeq(w), n)

(***************************************************************************)
(* Claims about the quality grade of an analysed history (SpecAnalysis).   *)
(***************************************************************************)
\* the history h without its sample at position i
RemoveAt(h, i) == SubSeq(h, 1, i - 1) \o SubSeq(h, i + 1, Len(h))

\* the history consists of losses only
OnlyLosses(h) == \A i \in 1..Len(h) : IsNone(h[i].latency)

C29_NoSpikeBelowWarmupWindow ==
  \A s \in SessionIds :
    sess[s].ps.settings.rollingWindowSize < minSamples =>
      /\ CalculateStats(sess[s].ps.latencies, sess[s].ps.deltas).sampleCount < minSamples
      /\ \A i \in 1..Len(sess[s].deviationEvents) :
           sess[s].deviationEvents[i].type = "packet_loss"

\* a session with a window of 9 and manual thresholds of 15 ms and 5 ms whose
\* eleventh successful sample is a 30 ms reply that follows a 10 ms one: beyond
\* both thresholds, and no event is raised
C29_Witness ==
  \E s \in SessionIds :
    /\ sess[s].ps.settings.rollingWindowSize = minSamples - 1
    /\ sess[s].det.settings.detectionMethod = "manual"
    /\ Len(sess[s].ps.successes) > minSamples
    /\ Len(sess[s].delivered) = 2
    /\ sess[s].delivered[1].latency = Some(10)
    /\ sess[s].delivered[2].latency = Some(30)
    /\ sess[s].lastEvents = <<>>

(***************************************************************************)
(* Claims about update_settings in a running session (SpecPing).           *)
(***************************************************************************)
\* C30: an update_settings message changes only the settings of the session's
\* DeviationDetector: the PingService (its rollingWindowSize, interval and
\* target, its window and its delta buffer) and the rest of the session stay as
\* they are, and the settings of the PingService remain those of the session's
\* start.
C30_UpdateSettingsOnlyDetector ==
  [][\A c \in env.conns : \A partial \in env.partials :
       UpdateSettingsMsg(c, partial) =>
         /\ db' = db
         /\ activeSessions' = activeSessions
         /\ \A s \in SessionIds :
              /\ sess'[s].ps = sess[s].ps
              /\ sess'[s].ps.settings = db.sessions[s].settings
              /\ [sess'[s] EXCEPT !.det = sess[s].det] = sess[s]
              /\ [sess'[s].det EXCEPT !.settings = sess[s].det.settings] = sess[s].det
              /\ s # activeSessions[c] => sess'[s].det = sess[s].det]_vars

\* a running session started with a window of 3 whose detector was told a
\* rollingWindowSize of 1, another target and another interval: the PingService
\* still has its settings and its window holds three latencies
C30_Witness ==
  \E s \in SessionIds :
    /\ sess[s].ps.isRunning
    /\ sess[s].det.settings.rollingWindowSize = 1
    /\ sess[s].det.settings.target = "other"
    /\ sess[s].ps.settings.rollingWindowSize = 3
    /\ sess[s].ps.settings.target = "host"
    /\ sess[s].ps.settings.interval = 100
    /\ Len(sess[s].ps.latencies) = 3

====
